---- MODULE Spec2Model ----
(***************************************************************************)
(* The reactive core of Vue 2.5.17-beta.0 as annotated in this repository: *)
(* Dep, Observer / defineReactive / set / del, traverse, Watcher and the   *)
(* scheduler.  JavaScript is single threaded, so every action below is one *)
(* whole top-level call (a write, a set, a watcher construction, a flush   *)
(* of the scheduler queue, ...) with every nested call it makes.           *)
(*                                                                         *)
(* The program state is carried through the nested calls as one record s;  *)
(* an operator F(s, ...) is the state after the call F(...) made in s.     *)
(***************************************************************************)
EXTENDS Integers, Sequences, FiniteSets, TLC

----------------------------------------------------------------------------
(* Bounds of the model *)

\* watchers constructed in one behaviour of the dependency specifications
MaxWatchers == 2
\* watchers constructed in one behaviour of the scheduler specification
MaxQueued == 3
\* Dep instances constructed in one behaviour (ids 0 .. MaxDeps-1)
MaxDeps == 9
\* frames of _traverse the call stack of the engine holds
StackLimit == 6
\* MAX_UPDATE_COUNT of the scheduler: the runs of one flush that may queue the watcher again
MaxUpdateCount == 2

----------------------------------------------------------------------------
(* Values.  A JavaScript value is a string: a primitive ("1", "2", "NaN",  *)
(* "undefined") or the name of a container (an object identity).           *)

Cont == {"data", "o", "p"}
Key  == {"a", "b", "o", "c", "x"}
Prim == {"1", "2", "NaN", "undefined"}
Absent == "absent"
NoOb == "none"
NoDep == -1
NoTarget == 0

\* util isObject: obj !== null && typeof obj === 'object'
IsObject(v) == v \in Cont

\* JavaScript's === : identity, except that NaN is not identical to itself
StrictEq(x, y) == x = y /\ x # "NaN"

\* one entry of the event log of the running top-level call: what happened (t),
\* to which watcher (w, 0: none), through which Dep (d), on which container (c),
\* with which key / values / remarks (x, y, z)
Ev(t, w, d, c, x, y, z) == [t |-> t, w |-> w, d |-> d, c |-> c, x |-> x, y |-> y, z |-> z]

VARIABLES
  objs,        \* objs[c][k]: the value the closure `val` of field k of container c holds (Absent: no such key)
  keys,        \* keys[c]: Object.keys(c), in insertion order
  ob,          \* ob[c]: id of the structural Dep of c.__ob__ (NoDep: c has no __ob__)
  vmCount,     \* vmCount[c]: c.__ob__.vmCount
  fdep,        \* fdep[c][k]: id of the closure `dep` of the reactive field (NoDep: the key is not reactive)
  fchild,      \* fchild[c][k]: the closure `childOb` of the field: the container whose Observer it is, or NoOb
  subs,        \* subs[d]: Dep.subs of the Dep with id d
  depUid,      \* dep.js uid: the id of the next Dep
  target,      \* Dep.target (NoTarget: null)
  targetStack, \* dep.js targetStack
  ws,          \* ws[i]: the i-th Watcher constructed
  uid,         \* watcher.js uid
  queue,       \* scheduler.js queue (the watchers, as indices of ws)
  has,         \* scheduler.js has: the watcher ids with has[id] == true
  waiting,     \* scheduler.js waiting: a flush is scheduled with nextTick
  ticks,       \* the flushSchedulerQueue callbacks nextTick holds, not yet called
  flushing,    \* scheduler.js flushing
  index,       \* scheduler.js index: position in queue of the watcher being run (0-based)
  seen,        \* traverse.js seenObjects
  circular,    \* scheduler.js circular: watcher id -> runs that queued the watcher again
  shouldObserve, \* observer/index.js shouldObserve
  kind,        \* kind[c]: what object c is: "plain" (a plain extensible object), "sealed" (plain, not
               \* extensible, not frozen), "frozen", "vnode" (a VNode), "vue" (_isVue), "class" (not plain),
               \* "array" (an Array whose elements are the values of its keys, in order)
  vmWatchers,  \* vm._watchers of the one component the watchers belong to
  customSetter, \* customSetter[c][k]: field k of c was defined with a customSetter
  production,  \* process.env.NODE_ENV === 'production'
  cache,       \* to-function.js cache, in the order the entries were made: key, and the template
               \* and delimiters the entry's functions were compiled from
  html,        \* html-parser.js html: what is left of the input of parseHTML, as the tokens it will match
  stack,       \* html-parser.js stack: the tag names of the open elements
  lastTag,     \* html-parser.js lastTag ("": undefined or 0)
  ev,          \* history: the events of the last top-level call, in order
  lastRead,    \* history: lastRead[i]: the Deps that watcher i's last completed get() called depend() on
  curRead,     \* history: the same for the get() that is running
  dropped,     \* history: dropped[i]: the Deps the get() before the last one called depend() on and the last one did not
  runs         \* history: runs[i]: the get() calls of watcher i since it was last notified (update), counted up to 2

vars == <<objs, keys, ob, vmCount, fdep, fchild, subs, depUid, target, targetStack,
          ws, uid, queue, has, waiting, ticks, flushing, index, seen, circular,
          shouldObserve, kind, vmWatchers, customSetter, production, cache, html, stack,
          lastTag, ev, lastRead, curRead, dropped, runs>>

\* the program state as one record
Cur ==
  [objs |-> objs, keys |-> keys, ob |-> ob, vmCount |-> vmCount, fdep |-> fdep,
   fchild |-> fchild, subs |-> subs, depUid |-> depUid, target |-> target,
   targetStack |-> targetStack, ws |-> ws, uid |-> uid, queue |-> queue, has |-> has,
   waiting |-> waiting, ticks |-> ticks, flushing |-> flushing, index |-> index, seen |-> seen,
   circular |-> circular,
   shouldObserve |-> shouldObserve, kind |-> kind, vmWatchers |-> vmWatchers,
   customSetter |-> customSetter, production |-> production,
   cache |-> cache, html |-> html, stack |-> stack, lastTag |-> lastTag,
   ev |-> ev, lastRead |-> lastRead, curRead |-> curRead, dropped |-> dropped,
   runs |-> runs]

\* the state is s
Is(s) ==
  /\ objs = s.objs /\ keys = s.keys /\ ob = s.ob /\ vmCount = s.vmCount
  /\ fdep = s.fdep /\ fchild = s.fchild /\ subs = s.subs /\ depUid = s.depUid
  /\ target = s.target /\ targetStack = s.targetStack /\ ws = s.ws /\ uid = s.uid
  /\ queue = s.queue /\ has = s.has /\ waiting = s.waiting /\ ticks = s.ticks
  /\ flushing = s.flushing /\ index = s.index /\ seen = s.seen
  /\ shouldObserve = s.shouldObserve /\ kind = s.kind /\ vmWatchers = s.vmWatchers
  /\ customSetter = s.customSetter /\ production = s.production
  /\ cache = s.cache /\ html = s.html /\ stack = s.stack /\ lastTag = s.lastTag
  /\ circular = s.circular
  /\ ev = s.ev /\ lastRead = s.lastRead /\ curRead = s.curRead
  /\ dropped = s.dropped /\ runs = s.runs

\* the next state is s; no more than MaxDeps Deps are ever made
Commit(s) ==
  /\ s.depUid <= MaxDeps
  /\ objs' = s.objs /\ keys' = s.keys /\ ob' = s.ob /\ vmCount' = s.vmCount
  /\ fdep' = s.fdep /\ fchild' = s.fchild /\ subs' = s.subs /\ depUid' = s.depUid
  /\ target' = s.target /\ targetStack' = s.targetStack /\ ws' = s.ws /\ uid' = s.uid
  /\ queue' = s.queue /\ has' = s.has /\ waiting' = s.waiting /\ ticks' = s.ticks
  /\ flushing' = s.flushing /\ index' = s.index /\ seen' = s.seen
  /\ shouldObserve' = s.shouldObserve /\ kind' = s.kind /\ vmWatchers' = s.vmWatchers
  /\ customSetter' = s.customSetter /\ production' = s.production
  /\ cache' = s.cache /\ html' = s.html /\ stack' = s.stack /\ lastTag' = s.lastTag
  /\ circular' = s.circular
  /\ ev' = s.ev /\ lastRead' = s.lastRead /\ curRead' = s.curRead
  /\ dropped' = s.dropped /\ runs' = s.runs

Log(s, e) == [s EXCEPT !.ev = Append(@, e)]

\* Op applied to the value v, computed once: the way a call's result is named
With(v, Op(_)) == Op(v)

----------------------------------------------------------------------------
(* dep.js *)

\* new Dep(): id = uid++, subs = []
NewDep(s) == [s EXCEPT !.subs = @ @@ (s.depUid :> <<>>), !.depUid = @ + 1]

\* Dep.addSub: this.subs.push(sub)
AddSub(s, d, w) == [s EXCEPT !.subs[d] = Append(@, w)]

\* util remove(arr, item): splice out the first occurrence, if any
RemoveFirst(seq, x) ==
  IF \E i \in 1..Len(seq) : seq[i] = x
  THEN LET i == CHOOSE j \in 1..Len(seq) : seq[j] = x /\ \A m \in 1..(j-1) : seq[m] # x
       IN  SubSeq(seq, 1, i-1) \o SubSeq(seq, i+1, Len(seq))
  ELSE seq

\* Dep.removeSub: remove(this.subs, sub)
RemoveSub(s, d, w) == [s EXCEPT !.subs[d] = RemoveFirst(@, w)]

\* pushTarget: if (Dep.target) targetStack.push(Dep.target); Dep.target = _target
PushTarget(s, w) ==
  [s EXCEPT !.targetStack = IF s.target # NoTarget THEN Append(@, s.target) ELSE @,
            !.target = w]

\* popTarget: Dep.target = targetStack.pop()   (undefined when the stack is empty)
PopTarget(s) ==
  IF Len(s.targetStack) = 0
  THEN [s EXCEPT !.target = NoTarget]
  ELSE [s EXCEPT !.target = s.targetStack[Len(s.targetStack)],
                 !.targetStack = SubSeq(@, 1, Len(@) - 1)]

----------------------------------------------------------------------------
(* watcher.js: dependency bookkeeping *)

InSeq(x, seq) == \E i \in 1..Len(seq) : seq[i] = x

\* addDep testing depIds before newDepIds: a Dep of the evaluation before is not
\* recorded in newDepIds
AddDepStale(s, w, d) ==
  IF d \notin s.ws[w].newDepIds /\ d \notin s.ws[w].depIds
  THEN AddSub([s EXCEPT !.ws[w].newDepIds = @ \cup {d}, !.ws[w].newDeps = Append(@, d)], d, w)
  ELSE s

\* addDep without the test of depIds: addSub for every Dep new to this evaluation
AddDepAlways(s, w, d) ==
  IF d \notin s.ws[w].newDepIds
  THEN AddSub([s EXCEPT !.ws[w].newDepIds = @ \cup {d}, !.ws[w].newDeps = Append(@, d)], d, w)
  ELSE s

\* Watcher.addDep
AddDep(s, w, d) ==
  IF d \notin s.ws[w].newDepIds
  THEN LET s1 == [s EXCEPT !.ws[w].newDepIds = @ \cup {d},
                           !.ws[w].newDeps = Append(@, d)]
       IN  IF d \notin s.ws[w].depIds THEN AddSub(s1, d, w) ELSE s1
  ELSE s

\* Dep.depend: if (Dep.target) Dep.target.addDep(this)
DepDepend(s, d) ==
  IF s.target # NoTarget
  THEN AddDep([s EXCEPT !.curRead[s.target] = @ \cup {d}], s.target, d)
  ELSE s

RECURSIVE CleanupLoop(_, _, _)
\* the while (i--) loop of cleanupDeps over this.deps
CleanupLoop(s, w, i) ==
  IF i = 0 THEN s
  ELSE LET d == s.ws[w].deps[i]
       IN  CleanupLoop(IF d \notin s.ws[w].newDepIds THEN RemoveSub(s, d, w) ELSE s, w, i - 1)

\* cleanupDeps without the removeSub loop: the two sets only swap
CleanupDepsKeep(s, w) ==
  [s EXCEPT !.ws[w].depIds = s.ws[w].newDepIds,
            !.ws[w].newDepIds = {},
            !.ws[w].deps = s.ws[w].newDeps,
            !.ws[w].newDeps = <<>>]

RECURSIVE CleanupLoopAll(_, _, _)
\* the loop of cleanupDeps without the test of newDepIds
CleanupLoopAll(s, w, i) ==
  IF i = 0 THEN s ELSE CleanupLoopAll(RemoveSub(s, s.ws[w].deps[i], w), w, i - 1)

\* cleanupDeps that leaves every Dep of the evaluation before
CleanupDepsAll(s, w) ==
  With(CleanupLoopAll(s, w, Len(s.ws[w].deps)), LAMBDA s1 :
    [s1 EXCEPT !.ws[w].depIds = s1.ws[w].newDepIds,
               !.ws[w].newDepIds = {},
               !.ws[w].deps = s1.ws[w].newDeps,
               !.ws[w].newDeps = <<>>])

\* Watcher.cleanupDeps
CleanupDeps(s, w) ==
  With(CleanupLoop(s, w, Len(s.ws[w].deps)), LAMBDA s1 :
    [s1 EXCEPT !.ws[w].depIds = s1.ws[w].newDepIds,
               !.ws[w].newDepIds = {},
               !.ws[w].deps = s1.ws[w].newDeps,
               !.ws[w].newDeps = <<>>])

----------------------------------------------------------------------------
(* observer/index.js: observe, Observer, defineReactive *)

\* the conditions of a new Observer without Object.isExtensible(value)
ObservableSealed(s, v) ==
  s.shouldObserve /\ s.kind[v] \in {"plain", "array", "sealed", "frozen"}

\* shouldObserve && !isServerRendering() && (Array.isArray(value) || isPlainObject(value)) &&
\* Object.isExtensible(value) && !value._isVue      (no server rendering in the model)
Observable(s, v) == s.shouldObserve /\ s.kind[v] \in {"plain", "array"}

RECURSIVE Observe(_, _), Walk(_, _, _), ObserveArray(_, _, _), DefineReactive(_, _, _, _)

\* observe without the test of value.__ob__: an Observer is made whenever the value
\* can be observed
ObserveAnew(s, v) ==
  IF ~IsObject(v) \/ s.kind[v] = "vnode" THEN s
  ELSE IF Observable(s, v)
       THEN Walk([NewDep(s) EXCEPT !.ob[v] = s.depUid, !.vmCount[v] = 0], v, 1)
       ELSE s

\* observe(value): the Observer of value is s'.ob[value] afterwards
Observe(s, v) ==
  IF ~IsObject(v) \/ s.kind[v] = "vnode" THEN s
  ELSE IF s.ob[v] # NoDep THEN s
  ELSE IF Observable(s, v)
       THEN \* new Observer(value): dep = new Dep(), vmCount = 0, def __ob__, and
            \* observeArray for an Array, walk for any other object
            With([NewDep(s) EXCEPT !.ob[v] = s.depUid, !.vmCount[v] = 0], LAMBDA s1 :
              IF s.kind[v] = "array" THEN ObserveArray(s1, v, 1) ELSE Walk(s1, v, 1))
       ELSE s

\* the value observe(value) returns (NoDep: nothing), given the state s after the call
ObserveRet(s, v) == IF IsObject(v) /\ s.kind[v] # "vnode" THEN s.ob[v] ELSE NoDep

\* observe(value, true): if (asRootData && ob) ob.vmCount++
ObserveAsRoot(s, v) ==
  With(Observe(s, v), LAMBDA s1 :
    IF ObserveRet(s1, v) # NoDep THEN [s1 EXCEPT !.vmCount[v] = @ + 1] ELSE s1)

\* Observer.walk: defineReactive(obj, keys[i]) for i = 0 .. keys.length-1
Walk(s, c, i) ==
  IF i > Len(s.keys[c]) THEN s
  ELSE Walk(DefineReactive(s, c, s.keys[c][i], s.objs[c][s.keys[c][i]]), c, i + 1)

\* Observer.observeArray: observe(items[i]) for i = 0 .. items.length-1
ObserveArray(s, c, i) ==
  IF i > Len(s.keys[c]) THEN s
  ELSE ObserveArray(Observe(s, s.objs[c][s.keys[c][i]]), c, i + 1)

\* defineReactive(obj, key, val): a Dep for the field, childOb = observe(val)
DefineReactive(s, c, k, v) ==
  With(Observe(NewDep(s), v), LAMBDA s1 :
    [s1 EXCEPT !.objs[c][k] = v,
               !.keys[c] = IF InSeq(k, @) THEN @ ELSE Append(@, k),
               !.fdep[c][k] = s.depUid,
               !.fchild[c][k] = IF IsObject(v) /\ s1.ob[v] # NoDep THEN v ELSE NoOb])

\* defineReactive(obj, key, val, customSetter)
DefineReactiveCustom(s, c, k, v) ==
  [DefineReactive(s, c, k, v) EXCEPT !.customSetter[c][k] = TRUE]

\* reactiveGetter registering with the Dep of the field alone
ReactiveGetterFieldOnly(s, c, k) ==
  IF s.target # NoTarget THEN DepDepend(s, s.fdep[c][k]) ELSE s

\* an exception is in flight: the last entry of the log is the throw, and every
\* caller up to the top-level call passes the state on untouched
Thrown(s) == Len(s.ev) > 0 /\ s.ev[Len(s.ev)].t = "throw"

\* the RangeError the engine throws when the call stack is exhausted
RangeError == Ev("throw", NoTarget, NoDep, "", "RangeError", "", "")

RECURSIVE DependArray(_, _, _), DependItems(_, _, _, _)

\* dependArray(value) called at depth n of the call stack
DependArray(s, v, n) ==
  IF n > StackLimit THEN Log(s, RangeError) ELSE DependItems(s, v, 1, n)

\* for (i = 0; i < l; i++) { e = value[i]; e && e.__ob__ && e.__ob__.dep.depend();
\*                            if (Array.isArray(e)) dependArray(e) }
DependItems(s, v, i, n) ==
  IF i > Len(s.keys[v]) \/ Thrown(s) THEN s
  ELSE With(s.objs[v][s.keys[v][i]], LAMBDA e :
         DependItems(With(IF IsObject(e) /\ s.ob[e] # NoDep THEN DepDepend(s, s.ob[e]) ELSE s,
                          LAMBDA s1 : IF IsObject(e) /\ s.kind[e] = "array"
                                      THEN DependArray(s1, e, n + 1) ELSE s1),
                     v, i + 1, n))

\* reactiveGetter of field k of c: the state after the read (the value is s.objs[c][k])
ReactiveGetter(s, c, k) ==
  IF s.target # NoTarget
  THEN With(DepDepend(s, s.fdep[c][k]), LAMBDA s1 :
         IF s.fchild[c][k] # NoOb
         THEN With(DepDepend(s1, s1.ob[s.fchild[c][k]]), LAMBDA s2 :
                IF IsObject(s.objs[c][k]) /\ s.kind[s.objs[c][k]] = "array"
                THEN DependArray(s2, s.objs[c][k], 1) ELSE s2)
         ELSE s1)
  ELSE s

\* the expression c[k]: the getter runs when the key is reactive
ReadField(s, c, k) == IF s.fdep[c][k] # NoDep THEN ReactiveGetter(s, c, k) ELSE s

\* the value of the expression c[k]
FieldVal(s, c, k) == IF s.objs[c][k] = Absent THEN "undefined" ELSE s.objs[c][k]

----------------------------------------------------------------------------
(* traverse.js *)

\* throw new Error() in the getter or the callback of watcher w
Error(w) == Ev("throw", w, NoDep, "", "Error", "", "")

\* handleError(e, vm, info): the exception of the getter or the callback (info) of watcher
\* w is handed to the error hook
Report(w, info) == Ev("report", w, NoDep, "", info, "", "")

RECURSIVE TraverseVal(_, _, _), TraverseKeys(_, _, _, _)

\* _traverse(val, seen) called at depth n of the call stack: the engine throws a
\* RangeError when the stack is exhausted
TraverseVal(s, v, n) ==
  IF n > StackLimit THEN Log(s, RangeError)
  ELSE IF ~IsObject(v) \/ s.kind[v] \in {"frozen", "vnode"} THEN s
  ELSE IF s.ob[v] # NoDep /\ s.ob[v] \in s.seen THEN s
  ELSE TraverseKeys(IF s.ob[v] # NoDep THEN [s EXCEPT !.seen = @ \cup {s.ob[v]}] ELSE s,
                    v, Len(s.keys[v]), n)

\* i = keys.length; while (i--) _traverse(val[keys[i]], seen): val[keys[i]] runs the getter
TraverseKeys(s, c, i, n) ==
  IF i = 0 \/ Thrown(s) THEN s
  ELSE LET k == s.keys[c][i]
       IN  TraverseKeys(With(ReadField(s, c, k), LAMBDA s1 :
                              IF Thrown(s1) THEN s1 ELSE TraverseVal(s1, FieldVal(s, c, k), n + 1)),
                        c, i - 1, n)

\* traverse(val): _traverse(val, seenObjects); seenObjects.clear()
Traverse(s, v) ==
  With(TraverseVal(s, v, 1), LAMBDA s1 : IF Thrown(s1) THEN s1 ELSE [s1 EXCEPT !.seen = {}])

----------------------------------------------------------------------------
(* scheduler.js: queueWatcher *)

RECURSIVE InsertPos(_, _, _)
\* let i = queue.length - 1; while (i > index && queue[i].id > watcher.id) i--
\* (i is 0-based, as in the code; the result is the i the loop ends with)
InsertPos(s, w, i) ==
  IF i > s.index /\ s.ws[s.queue[i + 1]].id > s.ws[w].id THEN InsertPos(s, w, i - 1) ELSE i

\* nextTick(flushSchedulerQueue) at every call
NextTickAlways(s) == [s EXCEPT !.waiting = TRUE, !.ticks = @ + 1]

\* if (!waiting) { waiting = true; nextTick(flushSchedulerQueue) }
NextTick(s) == IF s.waiting THEN s ELSE [s EXCEPT !.waiting = TRUE, !.ticks = @ + 1]

\* queueWatcher that, during a flush, notes the id and leaves the queue as it is
QueueWatcherIdle(s, w) ==
  IF s.ws[w].id \in s.has THEN s
  ELSE NextTick([s EXCEPT !.has = @ \cup {s.ws[w].id},
                          !.queue = IF s.flushing THEN @ ELSE Append(@, w)])

\* queueWatcher putting the watcher at its place by id in the whole queue, the entries
\* the flush has run included
QueueWatcherSorted(s, w) ==
  IF s.ws[w].id \in s.has THEN s
  ELSE LET n  == Cardinality({i \in 1..Len(s.queue) : s.ws[s.queue[i]].id <= s.ws[w].id})
           q1 == IF ~s.flushing
                 THEN Append(s.queue, w)
                 ELSE SubSeq(s.queue, 1, n) \o <<w>> \o SubSeq(s.queue, n + 1, Len(s.queue))
       IN  NextTick([s EXCEPT !.has = @ \cup {s.ws[w].id}, !.queue = q1])

\* queueWatcher(watcher)
QueueWatcher(s, w) ==
  IF s.ws[w].id \in s.has THEN s
  ELSE LET i  == InsertPos(s, w, Len(s.queue) - 1)
           q1 == IF ~s.flushing
                 THEN Append(s.queue, w)
                 ELSE SubSeq(s.queue, 1, i + 1) \o <<w>> \o SubSeq(s.queue, i + 2, Len(s.queue))
       IN  NextTick([s EXCEPT !.has = @ \cup {s.ws[w].id}, !.queue = q1])

----------------------------------------------------------------------------
(* watcher.js: get, update, run, getAndInvoke, evaluate, depend, teardown; *)
(* Dep.notify                                                              *)

RECURSIVE Get(_, _), Getter(_, _), Evaluate(_, _), GetAndInvoke(_, _, _),
          Update(_, _), Notify(_, _), NotifyLoop(_, _, _, _), Run(_, _),
          ReactiveSetter(_, _, _, _), Assign(_, _, _, _)

\* Watcher.depend: if (this.dep && Dep.target) this.dep.depend()
WatcherDepend(s, w) ==
  IF s.ws[w].dep # NoDep /\ s.target # NoTarget THEN DepDepend(s, s.ws[w].dep) ELSE s

\* the getter parsePath("c.k") makes, applied to data: data[c] is read, and [k] of it
\* when it is a container
PathGetter(s, c, k) ==
  LET s1 == ReadField(s, "data", c)
      v  == FieldVal(s, "data", c)
  IN  IF Thrown(s1) THEN [st |-> s1, val |-> "undefined"]
      ELSE IF IsObject(v)
      THEN [st |-> ReadField(s1, v, k), val |-> FieldVal(s, v, k)]
      ELSE [st |-> s1, val |-> "undefined"]

\* this.getter.call(vm, vm): the state after it and the value it returns.
\*   "a", "b", "o"  the paths a, b and o of data (parsePath)
\*   "ox"           the path o.x of data
\*   "cond"         function () { if (data.a === 1) return data.b
\*                                 return data.a === 2 ? data.o : data.a }
\*   "athrow"       function () { if (data.a === 2) throw new Error(); return data.a }
\*   "abthrow"      function () { data.b; if (data.a === 2) throw new Error(); return data.a }
\*   "data"         function () { return data }
\*   "comp"         a function that reads the computed property of watcher ref:
\*                  watcher.depend(); return watcher.evaluate()
Getter(s, w) ==
  LET g == s.ws[w].getter
  IN  CASE g \in {"a", "b", "o"} ->
             [st |-> ReadField(s, "data", g), val |-> FieldVal(s, "data", g)]
        [] g = "ox" -> PathGetter(s, "o", "x")
        [] g = "cond" ->
             LET s1 == ReadField(s, "data", "a")
                 s2 == ReadField(s1, "data", "a")
                 a  == FieldVal(s, "data", "a")
             IN  IF StrictEq(a, "1")
                 THEN [st |-> ReadField(s1, "data", "b"), val |-> FieldVal(s, "data", "b")]
                 ELSE IF StrictEq(a, "2")
                      THEN [st |-> ReadField(s2, "data", "o"), val |-> FieldVal(s, "data", "o")]
                      ELSE [st |-> s2, val |-> a]
        [] g = "athrow" ->
             LET s1 == ReadField(s, "data", "a")
                 a  == FieldVal(s, "data", "a")
             IN  IF StrictEq(a, "2")
                 THEN [st |-> Log(s1, Error(w)), val |-> "undefined"]
                 ELSE [st |-> s1, val |-> a]
        [] g = "abthrow" ->
             LET s1 == ReadField(ReadField(s, "data", "b"), "data", "a")
                 a  == FieldVal(s, "data", "a")
             IN  IF StrictEq(a, "2")
                 THEN [st |-> Log(s1, Error(w)), val |-> "undefined"]
                 ELSE [st |-> s1, val |-> a]
        [] g = "data" -> [st |-> s, val |-> "data"]
        [] g = "comp" -> Evaluate(WatcherDepend(s, s.ws[w].ref), s.ws[w].ref)

\* handleError(e, vm, info) for every exception
CatchAll(s, w, info) == IF Thrown(s) THEN Log(s, Report(w, info)) ELSE s

\* catch (e) { if (this.user) handleError(e, vm, info) else throw e } of get, and the
\* try / catch of getAndInvoke, which a watcher that is not a user watcher calls cb without
Catch(s, w, info) == IF Thrown(s) /\ s.ws[w].user THEN Log(s, Report(w, info)) ELSE s

\* get returning the value the watcher holds when the getter threw
GetKeepValue(s, w) ==
  With(Getter(PushTarget([Log(s, Ev("get", w, NoDep, "", "", "", ""))
                            EXCEPT !.curRead[w] = {},
                                   !.runs[w] = IF @ < 2 THEN @ + 1 ELSE @], w), w),
       LAMBDA r :
  With(Catch(r.st, w, "getter"), LAMBDA s1 :
  With(IF s.ws[w].deep /\ ~Thrown(r.st) THEN Traverse(s1, r.val) ELSE s1, LAMBDA s2 :
    IF Thrown(s2) /\ ~Thrown(s1)
    THEN [st |-> s2, val |-> "undefined"]
    ELSE With(CleanupDeps(PopTarget(s2), w), LAMBDA s3 :
           [st  |-> [s3 EXCEPT !.dropped[w] = s3.lastRead[w] \ s3.curRead[w],
                               !.lastRead[w] = s3.curRead[w]],
            val |-> IF Thrown(r.st) THEN s.ws[w].value ELSE r.val]))))

\* Watcher.get: the state after it and the value it returns
Get(s, w) ==
  With(Getter(PushTarget([Log(s, Ev("get", w, NoDep, "", "", "", ""))
                            EXCEPT !.curRead[w] = {},
                                   !.runs[w] = IF @ < 2 THEN @ + 1 ELSE @], w), w),
       LAMBDA r :
  \* catch (e): s1 is thrown still when the exception is thrown again
  With(Catch(r.st, w, "getter"), LAMBDA s1 :
  \* finally: traverse(value) of a deep watcher; value is undefined when the getter threw
  With(IF s.ws[w].deep /\ ~Thrown(r.st) THEN Traverse(s1, r.val) ELSE s1, LAMBDA s2 :
    IF Thrown(s2) /\ ~Thrown(s1)
    THEN \* traverse threw: of the finally block nothing after it runs
         [st |-> s2, val |-> "undefined"]
    ELSE With(CleanupDeps(PopTarget(s2), w), LAMBDA s3 :
           [st  |-> [s3 EXCEPT !.dropped[w] = s3.lastRead[w] \ s3.curRead[w],
                               !.lastRead[w] = s3.curRead[w]],
            val |-> IF Thrown(r.st) THEN "undefined" ELSE r.val]))))

\* Watcher.evaluate: the state after it and the value it returns
Evaluate(s, w) ==
  IF s.ws[w].dirty
  THEN With(Get(s, w), LAMBDA r :
         IF Thrown(r.st) THEN r
         ELSE [st |-> [r.st EXCEPT !.ws[w].value = r.val, !.ws[w].dirty = FALSE],
               val |-> r.val])
  ELSE [st |-> s, val |-> s.ws[w].value]

\* cb.call(this.vm, value, oldValue), the callback of watcher w; the event log records
\* the call.
\*   "log"     a callback that writes nothing
\*   "toggle"  function (v) { data.a = v === 1 ? 2 : 1 }
\*   "throw"   function () { throw new Error() }
\*   "fix"     function (v) { if (v === 1) data.a = 2 }
\*   "setb"    function (v) { data.b = v }
InvokeCb(s, w, value, oldValue) ==
  With(Log(s, Ev("cb", w, NoDep, "", value, oldValue, "")), LAMBDA s1 :
    IF s.ws[w].cb = "toggle"
    THEN LET nv == IF StrictEq(value, "1") THEN "2" ELSE "1"
         IN  IF s1.fdep["data"]["a"] # NoDep
             THEN ReactiveSetter(s1, "data", "a", nv)
             ELSE [s1 EXCEPT !.objs["data"]["a"] = nv]
    ELSE IF s.ws[w].cb = "throw" THEN Log(s1, Error(w))
    ELSE IF s.ws[w].cb = "fix"
    THEN IF StrictEq(value, "1") THEN Assign(s1, "data", "a", "2") ELSE s1
    ELSE IF s.ws[w].cb = "setb" THEN Assign(s1, "data", "b", value)
    ELSE s1)

\* getAndInvoke comparing the values alone
GetAndInvokeValueOnly(s, w, cb) ==
  With(Get(s, w), LAMBDA r :
    IF ~StrictEq(r.val, s.ws[w].value)
    THEN With([r.st EXCEPT !.ws[w].value = r.val, !.ws[w].dirty = FALSE], LAMBDA s1 :
           IF cb = "cb"
           THEN Log(s1, Ev("cb", w, NoDep, "", r.val, s.ws[w].value, ""))
           ELSE Notify(s1, s1.ws[w].dep))
    ELSE r.st)

\* Watcher.getAndInvoke(cb); cb is this.cb ("cb": the callback of the watcher, which
\* the event log records) or () => this.dep.notify() ("notify")
GetAndInvoke(s, w, cb) ==
  With(Get(s, w), LAMBDA r :
    IF Thrown(r.st) THEN r.st
    ELSE IF ~StrictEq(r.val, s.ws[w].value) \/ IsObject(r.val) \/ s.ws[w].deep
    THEN With([r.st EXCEPT !.ws[w].value = r.val, !.ws[w].dirty = FALSE], LAMBDA s1 :
           Catch(IF cb = "cb"
                 THEN InvokeCb(s1, w, r.val, s.ws[w].value)
                 ELSE Notify(s1, s1.ws[w].dep), w, "callback"))
    ELSE r.st)

\* run without the test of this.active
RunAlways(s, w) == GetAndInvoke(s, w, "cb")

\* Watcher.run
Run(s, w) == IF s.ws[w].active THEN GetAndInvoke(s, w, "cb") ELSE s

\* update running every watcher that is not computed at once
UpdateInline(s, w) ==
  IF s.ws[w].computed
  THEN IF Len(s.subs[s.ws[w].dep]) = 0
       THEN [s EXCEPT !.ws[w].dirty = TRUE]
       ELSE GetAndInvoke(s, w, "notify")
  ELSE Run(s, w)

\* update pushing the watcher onto the queue itself
UpdateRequeue(s, w) ==
  IF s.ws[w].computed
  THEN IF Len(s.subs[s.ws[w].dep]) = 0
       THEN [s EXCEPT !.ws[w].dirty = TRUE]
       ELSE GetAndInvoke(s, w, "notify")
  ELSE IF s.ws[w].sync
       THEN Run(s, w)
       ELSE NextTick([s EXCEPT !.queue = Append(@, w), !.has = @ \cup {s.ws[w].id}])

\* update handing every watcher that is not computed to the scheduler
UpdateDeferred(s, w) ==
  IF s.ws[w].computed
  THEN IF Len(s.subs[s.ws[w].dep]) = 0
       THEN [s EXCEPT !.ws[w].dirty = TRUE]
       ELSE GetAndInvoke(s, w, "notify")
  ELSE QueueWatcher(s, w)

\* update re-evaluating a computed watcher whether or not its Dep has subscribers
UpdateEager(s, w) ==
  IF s.ws[w].computed
  THEN GetAndInvoke(s, w, "notify")
  ELSE IF s.ws[w].sync
       THEN Run(s, w)
       ELSE QueueWatcher(s, w)

\* Watcher.update
Update(s, w) ==
  IF s.ws[w].computed
  THEN IF Len(s.subs[s.ws[w].dep]) = 0
       THEN [s EXCEPT !.ws[w].dirty = TRUE]
       ELSE GetAndInvoke(s, w, "notify")
  ELSE IF s.ws[w].sync
       THEN Run(s, w)
       ELSE QueueWatcher(s, w)

\* what the event log notes of the watcher a Dep is about to notify
UpdateEv(s, d, w) ==
  Ev("update", w, d, "",
     IF s.ws[w].computed /\ Len(s.subs[s.ws[w].dep]) = 0 THEN "lazy" ELSE "",
     IF d \in s.dropped[w] THEN "dropped" ELSE "",
     IF s.ws[w].id \in s.has THEN "queued" ELSE "")

\* Dep.notify: const subs = this.subs.slice(); for (...) subs[i].update()
NotifyLoop(s, d, snapshot, i) ==
  IF i > Len(snapshot) \/ Thrown(s) THEN s
  ELSE LET w == snapshot[i]
       IN  NotifyLoop(Update([Log(s, UpdateEv(s, d, w)) EXCEPT !.runs[w] = 0], w),
                      d, snapshot, i + 1)

Notify(s, d) == NotifyLoop(Log(s, Ev("notify", 0, d, "", "", "", "")), d, s.subs[d], 1)

RECURSIVE TeardownLoop(_, _, _)
\* let i = this.deps.length; while (i--) this.deps[i].removeSub(this)
TeardownLoop(s, w, i) ==
  IF i = 0 THEN s ELSE TeardownLoop(RemoveSub(s, s.ws[w].deps[i], w), w, i - 1)

\* teardown without the test of this.active
TeardownUnguarded(s, w) ==
  [TeardownLoop([s EXCEPT !.vmWatchers = RemoveFirst(@, w)], w, Len(s.ws[w].deps))
     EXCEPT !.ws[w].active = FALSE]

\* Watcher.teardown; the component is not being destroyed
Teardown(s, w) ==
  IF s.ws[w].active
  THEN [TeardownLoop([s EXCEPT !.vmWatchers = RemoveFirst(@, w)], w, Len(s.ws[w].deps))
          EXCEPT !.ws[w].active = FALSE]
  ELSE s

\* ids counting down: this.id = -(++uid)
NewIdDown(s) == 0 - (s.uid + 1)

\* this.id = ++uid
NewId(s) == s.uid + 1

\* new Watcher(vm, expOrFn, cb, options) with the options p
NewWatcher(s, p, ref) ==
  LET i  == Len(s.ws) + 1
      w0 == [id |-> NewId(s), getter |-> p.getter, ref |-> ref, deep |-> p.deep,
             user |-> p.user, cb |-> p.cb, computed |-> p.computed, sync |-> p.sync, active |-> TRUE,
             dirty |-> p.computed, deps |-> <<>>, newDeps |-> <<>>, depIds |-> {},
             newDepIds |-> {}, value |-> "undefined",
             dep |-> IF p.computed THEN s.depUid ELSE NoDep]
      s1 == [s EXCEPT !.ws = Append(@, w0), !.uid = @ + 1, !.vmWatchers = Append(@, i),
                      !.lastRead = Append(@, {}), !.curRead = Append(@, {}),
                      !.dropped = Append(@, {}), !.runs = Append(@, 0)]
  IN  IF p.computed
      THEN NewDep(s1)
      ELSE With(Get(s1, i), LAMBDA r :
             IF Thrown(r.st) THEN r.st ELSE [r.st EXCEPT !.ws[i].value = r.val])

----------------------------------------------------------------------------
(* scheduler.js: flushSchedulerQueue *)

\* queue.sort((a, b) => a.id - b.id)
SortQueue(s) == [s EXCEPT !.queue = SortSeq(@, LAMBDA x, y : s.ws[x].id < s.ws[y].id)]

\* circular[id] || 0
CircularCount(s, id) == IF id \in DOMAIN s.circular THEN s.circular[id] ELSE 0

\* the report of the loop guard, naming watcher w
LoopWarning(w) == Ev("warn", w, NoDep, "", "infinite update loop", "", "")

\* the loop guard has reported: the flush loop breaks
Aborted(s) == Len(s.ev) > 0 /\ s.ev[Len(s.ev)].t = "warn"
              /\ s.ev[Len(s.ev)].x = "infinite update loop"

\* the loop guard reporting at twice the threshold
CircularCheckLate(s, w) ==
  IF s.ws[w].id \in s.has
  THEN LET n == CircularCount(s, s.ws[w].id) + 1
       IN  IF n > MaxUpdateCount + MaxUpdateCount
           THEN Log([s EXCEPT !.circular = (s.ws[w].id :> n) @@ @], LoopWarning(w))
           ELSE [s EXCEPT !.circular = (s.ws[w].id :> n) @@ @]
  ELSE s

\* the loop guard, after watcher.run(): when the run queued the watcher again (has[id]
\* is set), circular[id] is counted up, and beyond MAX_UPDATE_COUNT the watcher is
\* reported and the flush loop breaks
CircularCheck(s, w) ==
  IF s.ws[w].id \in s.has
  THEN LET n == CircularCount(s, s.ws[w].id) + 1
       IN  IF n > MaxUpdateCount
           THEN Log([s EXCEPT !.circular = (s.ws[w].id :> n) @@ @], LoopWarning(w))
           ELSE [s EXCEPT !.circular = (s.ws[w].id :> n) @@ @]
  ELSE s

RECURSIVE FlushLoop(_), FlushLoopKeepHas(_)
\* the flush loop leaving the id of a watcher in has while the watcher runs
FlushLoopKeepHas(s) ==
  IF s.index >= Len(s.queue) \/ Thrown(s) THEN s
  ELSE LET w == s.queue[s.index + 1]
       IN  With(Run(Log(s, Ev("run", w, NoDep, "", "", "", "")), w), LAMBDA s1 :
             IF Thrown(s1) THEN s1
             ELSE FlushLoopKeepHas([s1 EXCEPT !.index = @ + 1, !.has = @ \ {s.ws[w].id}]))

\* for (index = 0; index < queue.length; index++) { has[id] = null; watcher.run();
\* the loop guard }
FlushLoop(s) ==
  IF s.index >= Len(s.queue) \/ Thrown(s) THEN s
  ELSE LET w == s.queue[s.index + 1]
       IN  With(Run(Log([s EXCEPT !.has = @ \ {s.ws[w].id}],
                        Ev("run", w, NoDep, "", "", "", "")), w), LAMBDA s1 :
             IF Thrown(s1) THEN s1
             ELSE With(CircularCheck(s1, w), LAMBDA s2 :
                    IF Aborted(s2) THEN s2 ELSE FlushLoop([s2 EXCEPT !.index = @ + 1])))

\* flushSchedulerQueue, resetSchedulerState included
FlushSchedulerQueue(s) ==
  LET s1 == FlushLoop(SortQueue([s EXCEPT !.flushing = TRUE, !.index = 0]))
  IN  IF Thrown(s1) THEN s1
      ELSE [s1 EXCEPT !.index = 0, !.queue = <<>>, !.has = {}, !.circular = <<>>,
                      !.waiting = FALSE, !.flushing = FALSE]

----------------------------------------------------------------------------
(* observer/index.js: reactiveSetter, set, del *)

\* reactiveSetter comparing with === alone
ReactiveSetterIdentity(s, c, k, nv) ==
  IF StrictEq(nv, s.objs[c][k])
  THEN s
  ELSE With(Observe([s EXCEPT !.objs[c][k] = nv], nv), LAMBDA s1 :
         Notify([s1 EXCEPT !.fchild[c][k] =
                             IF IsObject(nv) /\ s1.ob[nv] # NoDep THEN nv ELSE NoOb],
                s1.fdep[c][k]))

\* if (process.env.NODE_ENV !== 'production' && customSetter) customSetter(): what the
\* function does is its caller's; the event log notes the call
CustomSetter(s, c, k) ==
  IF ~s.production /\ s.customSetter[c][k]
  THEN Log(s, Ev("customSetter", 0, s.fdep[c][k], c, k, "", ""))
  ELSE s

\* reactiveSetter calling customSetter before it compares the values
ReactiveSetterIntercepted(s, c, k, nv) ==
  With(CustomSetter(s, c, k), LAMBDA s0 :
    IF StrictEq(nv, s0.objs[c][k]) \/ (nv = "NaN" /\ s0.objs[c][k] = "NaN")
    THEN s0
    ELSE With(Observe([s0 EXCEPT !.objs[c][k] = nv], nv), LAMBDA s1 :
           Notify([s1 EXCEPT !.fchild[c][k] =
                               IF IsObject(nv) /\ s1.ob[nv] # NoDep THEN nv ELSE NoOb],
                  s1.fdep[c][k])))

\* reactiveSetter of field k of c
ReactiveSetter(s, c, k, nv) ==
  LET value == s.objs[c][k]
  IN  IF StrictEq(nv, value) \/ (nv = "NaN" /\ value = "NaN")
      THEN s
      ELSE With(Observe([CustomSetter(s, c, k) EXCEPT !.objs[c][k] = nv], nv), LAMBDA s1 :
             Notify([s1 EXCEPT !.fchild[c][k] =
                                 IF IsObject(nv) /\ s1.ob[nv] # NoDep THEN nv ELSE NoOb],
                    s1.fdep[c][k]))

\* the assignment c[k] = v to an existing key
Assign(s, c, k, v) ==
  IF s.fdep[c][k] # NoDep THEN ReactiveSetter(s, c, k, v) ELSE [s EXCEPT !.objs[c][k] = v]

\* isUndef(target) || isPrimitive(target), for the targets that are no containers
NonContainer == {"undefined", "null", "1"}

\* warn(`Cannot set / delete reactive property on undefined, null, or primitive value`)
MisuseWarning == Ev("warn", 0, NoDep, "", "undefined, null, or primitive value", "", "")

\* warn('Avoid adding reactive properties to / deleting properties on a Vue instance or
\* its root $data')
RootDataWarning == Ev("warn", 0, NoDep, "", "root $data", "", "")

\* the TypeError the engine throws for key in target when target is no object, and for
\* target.__ob__ when target is undefined or null
TypeError == Ev("throw", NoTarget, NoDep, "", "TypeError", "", "")

\* set adding the key reactively whether or not it exists
SetAlwaysAdd(s, c, k, v) ==
  IF ~IsObject(c) THEN Log(Log(s, MisuseWarning), TypeError)
  ELSE IF s.ob[c] # NoDep /\ s.vmCount[c] > 0 THEN Log(s, RootDataWarning)
  ELSE IF s.ob[c] = NoDep
       THEN [s EXCEPT !.objs[c][k] = v, !.keys[c] = IF InSeq(k, @) THEN @ ELSE Append(@, k)]
       ELSE With(DefineReactive(s, c, k, v), LAMBDA s1 : Notify(s1, s1.ob[c]))

\* set whose test of vmCount gates the warning alone: it warns and goes on
SetUngated(s, c, k, v) ==
  IF ~IsObject(c) THEN Log(Log(s, MisuseWarning), TypeError)
  ELSE IF s.objs[c][k] # Absent THEN Assign(s, c, k, v)
  ELSE With(IF s.ob[c] # NoDep /\ s.vmCount[c] > 0 THEN Log(s, RootDataWarning) ELSE s,
            LAMBDA s0 :
              IF s0.ob[c] = NoDep
              THEN [s0 EXCEPT !.objs[c][k] = v, !.keys[c] = Append(@, k)]
              ELSE With(DefineReactive(s0, c, k, v), LAMBDA s1 : Notify(s1, s1.ob[c])))

\* set(target, key, val); target is a keyed container, or no container: then set warns,
\* and key in target throws
Set(s, c, k, v) ==
  IF ~IsObject(c) THEN Log(Log(s, MisuseWarning), TypeError)
  ELSE IF s.objs[c][k] # Absent THEN Assign(s, c, k, v)
  ELSE IF s.ob[c] # NoDep /\ s.vmCount[c] > 0 THEN Log(s, RootDataWarning)
  ELSE IF s.ob[c] = NoDep
       THEN [s EXCEPT !.objs[c][k] = v, !.keys[c] = Append(@, k)]
       ELSE With(DefineReactive(s, c, k, v), LAMBDA s1 : Notify(s1, s1.ob[c]))

\* del deleting the key without notifying
DelSilent(s, c, k) ==
  IF ~IsObject(c)
  THEN IF c \in {"undefined", "null"} THEN Log(Log(s, MisuseWarning), TypeError)
       ELSE Log(s, MisuseWarning)
  ELSE IF s.ob[c] # NoDep /\ s.vmCount[c] > 0 THEN Log(s, RootDataWarning)
  ELSE IF s.objs[c][k] = Absent THEN s
  ELSE [s EXCEPT !.objs[c][k] = Absent, !.keys[c] = RemoveFirst(@, k),
                 !.fdep[c][k] = NoDep, !.fchild[c][k] = NoOb]

\* del(target, key); target is a keyed container, or no container: then del warns,
\* target.__ob__ throws when target is undefined or null, and a primitive has no property
Del(s, c, k) ==
  IF ~IsObject(c)
  THEN IF c \in {"undefined", "null"} THEN Log(Log(s, MisuseWarning), TypeError)
       ELSE Log(s, MisuseWarning)
  ELSE IF s.ob[c] # NoDep /\ s.vmCount[c] > 0 THEN Log(s, RootDataWarning)
  ELSE IF s.objs[c][k] = Absent THEN s
  ELSE LET s1 == [s EXCEPT !.objs[c][k] = Absent, !.keys[c] = RemoveFirst(@, k),
                           !.fdep[c][k] = NoDep, !.fchild[c][k] = NoOb]
       IN  IF s1.ob[c] = NoDep THEN s1 ELSE Notify(s1, s1.ob[c])

----------------------------------------------------------------------------
(* The initial state and the top-level calls *)

\* the options watchers are constructed with
PA        == [getter |-> "a",    deep |-> FALSE, user |-> TRUE,  computed |-> FALSE, sync |-> FALSE, cb |-> "log"]
PB        == [getter |-> "b",    deep |-> FALSE, user |-> TRUE,  computed |-> FALSE, sync |-> FALSE, cb |-> "log"]
POx       == [getter |-> "ox",   deep |-> FALSE, user |-> TRUE,  computed |-> FALSE, sync |-> FALSE, cb |-> "log"]
PCond     == [getter |-> "cond", deep |-> FALSE, user |-> TRUE,  computed |-> FALSE, sync |-> TRUE, cb |-> "log"]
PDeepData == [getter |-> "data", deep |-> TRUE,  user |-> TRUE,  computed |-> FALSE, sync |-> FALSE, cb |-> "log"]
PDeepO    == [getter |-> "o",    deep |-> TRUE,  user |-> TRUE,  computed |-> FALSE, sync |-> FALSE, cb |-> "log"]
PComputed == [getter |-> "b",    deep |-> FALSE, user |-> FALSE, computed |-> TRUE,  sync |-> FALSE, cb |-> "log"]
PO        == [getter |-> "o",    deep |-> FALSE, user |-> TRUE,  computed |-> FALSE, sync |-> FALSE, cb |-> "log"]
PDeepOx   == [getter |-> "ox",   deep |-> TRUE,  user |-> TRUE,  computed |-> FALSE, sync |-> FALSE, cb |-> "log"]
PLoop     == [getter |-> "a",    deep |-> FALSE, user |-> TRUE,  computed |-> FALSE, sync |-> FALSE, cb |-> "toggle"]
PThrow    == [getter |-> "athrow", deep |-> FALSE, user |-> TRUE, computed |-> FALSE, sync |-> FALSE, cb |-> "log"]
PThrowIn  == [getter |-> "athrow", deep |-> FALSE, user |-> FALSE, computed |-> FALSE, sync |-> FALSE, cb |-> "log"]
PThrowB   == [getter |-> "abthrow", deep |-> FALSE, user |-> TRUE, computed |-> FALSE, sync |-> FALSE, cb |-> "log"]
PThrowDeep == [getter |-> "abthrow", deep |-> TRUE, user |-> TRUE, computed |-> FALSE, sync |-> FALSE, cb |-> "log"]
PCbThrow  == [getter |-> "a",    deep |-> FALSE, user |-> TRUE,  computed |-> FALSE, sync |-> FALSE, cb |-> "throw"]
PCbThrowIn == [getter |-> "a",   deep |-> FALSE, user |-> FALSE, computed |-> FALSE, sync |-> FALSE, cb |-> "throw"]
PComputedO == [getter |-> "o",   deep |-> FALSE, user |-> FALSE, computed |-> TRUE,  sync |-> FALSE, cb |-> "log"]
PComputedOx == [getter |-> "ox", deep |-> FALSE, user |-> FALSE, computed |-> TRUE,  sync |-> FALSE, cb |-> "log"]
PFix      == [getter |-> "a",    deep |-> FALSE, user |-> TRUE,  computed |-> FALSE, sync |-> FALSE, cb |-> "fix"]
PAtoB     == [getter |-> "a",    deep |-> FALSE, user |-> TRUE,  computed |-> FALSE, sync |-> FALSE, cb |-> "setb"]
PRender   == [getter |-> "comp", deep |-> FALSE, user |-> FALSE, computed |-> FALSE, sync |-> FALSE, cb |-> "log"]

\* data = {a: 1, b: 1, o: {x: 1}}, p = {x: 1}, nothing observed, no watcher
Blank ==
  [objs |-> [c \in Cont |-> [k \in Key |->
               CASE c = "data" /\ k \in {"a", "b"} -> "1"
                 [] c = "data" /\ k = "o" -> "o"
                 [] c \in {"o", "p"} /\ k = "x" -> "1"
                 [] OTHER -> Absent]],
   keys |-> [c \in Cont |-> IF c = "data" THEN <<"a", "b", "o">> ELSE <<"x">>],
   ob |-> [c \in Cont |-> NoDep], vmCount |-> [c \in Cont |-> 0],
   fdep |-> [c \in Cont |-> [k \in Key |-> NoDep]],
   fchild |-> [c \in Cont |-> [k \in Key |-> NoOb]],
   subs |-> <<>>, depUid |-> 0, target |-> NoTarget, targetStack |-> <<>>,
   ws |-> <<>>, uid |-> 0, queue |-> <<>>, has |-> {}, waiting |-> FALSE, ticks |-> 0,
   flushing |-> FALSE, index |-> 0, seen |-> {}, circular |-> <<>>,
   shouldObserve |-> TRUE,
   kind |-> [c \in Cont |-> "plain"], vmWatchers |-> <<>>,
   customSetter |-> [c \in Cont |-> [k \in Key |-> FALSE]], production |-> FALSE,
   cache |-> <<>>, html |-> <<>>, stack |-> <<>>, lastTag |-> "",
   ev |-> <<>>, lastRead |-> <<>>,
   curRead |-> <<>>, dropped |-> <<>>, runs |-> <<>>]

\* the state after observe(data)
InitState == Observe(Blank, "data")

Init == Is(InitState)

\* the state a top-level call starts in: the event log holds the call alone, with
\* the Dep of the field or container it is about (d), the container, the key (x),
\* the value given (y) and the value the key holds (z)
Start(t, w, d, c, x, y, z) == [Cur EXCEPT !.ev = <<Ev(t, w, d, c, x, y, z)>>]

\* new Watcher(...) with one of the option sets P, while fewer than max watchers exist
CreateWatcher(P, max) ==
  \E p \in P :
    \E ref \in 0..Len(ws) :
      /\ Len(ws) < max
      /\ IF p.getter = "comp" THEN ref > 0 /\ ws[ref].computed ELSE ref = 0
      /\ depUid + (IF p.computed THEN 1 ELSE 0) <= MaxDeps
      /\ Commit(NewWatcher(Start("new", Len(ws) + 1, NoDep, "", "", "", ""), p, ref))

\* c[k] = v for one of the assignments <<c, k, v>> of F to a reactive field
Write(F) ==
  \E f \in F :
    /\ fdep[f[1]][f[2]] # NoDep
    /\ Commit(ReactiveSetter(Start("write", 0, fdep[f[1]][f[2]], f[1], f[2], f[3],
                                    objs[f[1]][f[2]]),
                              f[1], f[2], f[3]))

\* set(c, "c", 1) for a container c of C
SetOp(C) ==
  \E c \in C :
    /\ c \in Cont
    /\ Commit(Set(Start("set", 0, ob[c], c, "c", "1", objs[c]["c"]), c, "c", "1"))

\* del(c, "c") for a container c of C
DelOp(C) ==
  \E c \in C :
    /\ objs[c]["c"] # Absent
    /\ Commit(Del(Start("del", 0, ob[c], c, "c", "", objs[c]["c"]), c, "c"))

\* set(c, k, v) for a target c of C, a key k of K and a value v of V; a target that is a
\* container is a plain object
SetKey(C, K, V) ==
  \E c \in C, k \in K, v \in V :
    /\ c \in Cont => kind[c] = "plain"
    /\ Commit(Set(Start("set", 0, IF c \in Cont THEN ob[c] ELSE NoDep, c, k, v,
                        IF c \in Cont THEN objs[c][k] ELSE Absent), c, k, v))

\* del(c, k) for a target c of C and a key k of K; a target that is a container is a
\* plain object
DelKey(C, K) ==
  \E c \in C, k \in K :
    /\ c \in Cont => kind[c] = "plain"
    /\ Commit(Del(Start("del", 0, IF c \in Cont THEN ob[c] ELSE NoDep, c, k, "",
                        IF c \in Cont THEN objs[c][k] ELSE Absent), c, k))

\* the queue holds the watchers in ascending order of id
Ascending(q) == \A i, j \in 1..Len(q) : i < j => ws[q[i]].id < ws[q[j]].id

\* the nextTick callback: flushSchedulerQueue(); the event log notes whether the queue
\* was in order
Flush ==
  /\ ticks > 0
  /\ Commit(FlushSchedulerQueue([Start("flush", 0, NoDep, "", "", "",
                                       IF Ascending(queue) THEN "ordered" ELSE "unordered")
                                    EXCEPT !.ticks = @ - 1]))

\* a read of a computed property outside any evaluation: watcher.depend(); watcher.evaluate()
EvaluateOp ==
  \E w \in 1..Len(ws) :
    /\ ws[w].computed
    /\ Commit(Evaluate(WatcherDepend(Start("evaluate", w, NoDep, "", "", "", ""), w), w).st)

\* watcher.teardown(); the event log notes whether the watcher was active
TeardownOp ==
  \E w \in 1..Len(ws) :
    Commit(Teardown(Start("teardown", w, NoDep, "", "", "",
                          IF ws[w].active THEN "active" ELSE "inactive"), w))

\* what the event log notes of a call observe(v): the Observer attached to v before
\* the call (d), asRootData (y) and shouldObserve before the call (z)
ObserveCall(v, root) ==
  Start("observe", 0, IF v \in Cont THEN ob[v] ELSE NoDep, "", v,
        IF root THEN "root" ELSE "", IF shouldObserve THEN "on" ELSE "off")

\* observe(v) or, with root in R, observe(v, true) for a value v of V; the root data of a
\* component is a container and that of one component only; the event log notes the
\* Observer returned (d; NoDep when nothing is returned)
ObserveOp(V, R) ==
  \E v \in V, root \in R :
    /\ root => v \in Cont /\ vmCount[v] = 0
    /\ With(IF root THEN ObserveAsRoot(ObserveCall(v, root), v)
                    ELSE Observe(ObserveCall(v, root), v),
            LAMBDA s1 : Commit(Log(s1, Ev("return", 0, ObserveRet(s1, v), "", v, "", ""))))

\* traverse(v) for a value v of V
TraverseOp(V) ==
  \E v \in V :
    /\ v \in Cont \cup Prim
    /\ Commit(Traverse(Start("traverse", 0, NoDep, "", v, "", ""), v))

\* toggleObserving(value)
ToggleObserving ==
  \E b \in BOOLEAN :
    /\ b # shouldObserve
    /\ Commit([Start("toggle", 0, NoDep, "", "", "", "") EXCEPT !.shouldObserve = b])

----------------------------------------------------------------------------
(* Dependency collection: a sync watcher whose reads depend on the data, a *)
(* computed watcher and a function that reads it; writes, reads of the     *)
(* computed property, teardown.                                            *)

Next ==
  \/ CreateWatcher({PCond, PComputed, PRender}, MaxWatchers)
  \/ Write({"data"} \X {"a", "b"} \X {"1", "2"})
  \/ Flush
  \/ EvaluateOp
  \/ TeardownOp

Spec == Init /\ [][Next]_vars

----------------------------------------------------------------------------
(* Properties of dependency collection (Spec) *)

Watchers == 1..Len(ws)

\* the Deps whose subscriber list holds watcher w
SubscribedTo(w) == {d \in DOMAIN subs : InSeq(w, subs[d])}

\* an evaluation (get) of watcher w completed in the last top-level call
Evaluated(w) == \E i \in 1..Len(ev) : ev[i].t = "get" /\ ev[i].w = w

C2_UnsubscribedOnDrop ==
  /\ \A w \in Watchers : \A d \in dropped[w] : ~InSeq(w, subs[d])
  /\ \A i \in 1..Len(ev) : ev[i].t = "update" => ev[i].y # "dropped"

\* a field that a watcher has stopped reading is written, with a value that differs
C2_Witness ==
  \E w \in Watchers :
    /\ ev[1].t = "write" /\ ev[1].d \in dropped[w] /\ ~Evaluated(w)
    /\ \E i \in 1..Len(ev) : ev[i].t = "notify" /\ ev[i].d = ev[1].d

\* C3: no Dep's subscriber list holds the same watcher twice.
C3_NoDuplicateSubscription ==
  \A d \in DOMAIN subs :
    \A i, j \in 1..Len(subs[d]) : i # j => subs[d][i] # subs[d][j]

\* a watcher whose getter read data.a twice in one evaluation, after an earlier
\* evaluation that read data.a too, is subscribed to it
C3_Witness ==
  \E w \in Watchers :
    /\ ws[w].getter = "cond" /\ ev[1].t = "write" /\ Evaluated(w)
    /\ ws[w].value = "o" /\ InSeq(w, subs[fdep["data"]["a"]])

----------------------------------------------------------------------------
(* Writes: default-mode watchers of a primitive field and of a container    *)
(* field; writes of equal, different and NaN values and of another          *)
(* container; flushes.                                                      *)

NextWrite ==
  \/ CreateWatcher({PA, PO}, MaxWatchers)
  \/ Write(({"data"} \X {"a"} \X {"1", "2", "NaN"}) \cup ({"data"} \X {"o"} \X {"o", "p"}))
  \/ Flush

SpecWrite == Init /\ [][NextWrite]_vars

\* the last top-level call was a t
Call(t) == Len(ev) > 0 /\ ev[1].t = t

\* the entries of the event log that are callbacks / runs of watcher w
CbEvents(log, w) == {i \in 1..Len(log) : log[i].t = "cb" /\ log[i].w = w}
RunEvents(log, w) == {i \in 1..Len(log) : log[i].t = "run" /\ log[i].w = w}

\* the value the expression watcher w watches has in the state
Watched(w) ==
  CASE ws[w].getter \in {"a", "b", "o"} -> FieldVal(Cur, "data", ws[w].getter)
    [] ws[w].getter = "ox" ->
         IF IsObject(objs["data"]["o"]) THEN FieldVal(Cur, objs["data"]["o"], "x")
         ELSE "undefined"
    [] ws[w].getter = "data" -> "data"
    [] OTHER -> ws[w].value

\* C4: after a write c[k] = y to a reactive field that held z, the field's Dep has
\* notified (every subscriber of it) if and only if y and z are not identical and not
\* both NaN; then the field holds y; otherwise it holds z still and nothing happened.
C4_SetterNotifiesIffChanged ==
  Call("write") =>
    LET h == ev[1]
        changed  == ~StrictEq(h.y, h.z) /\ ~(h.y = "NaN" /\ h.z = "NaN")
        notified == \E i \in 1..Len(ev) : ev[i].t = "notify" /\ ev[i].d = h.d
    IN  /\ h.d = fdep[h.c][h.x]
        /\ notified <=> changed
        /\ changed =>
             /\ objs[h.c][h.x] = h.y
             /\ \A n \in 1..Len(subs[h.d]) :
                  \E i \in 1..Len(ev) :
                    ev[i].t = "update" /\ ev[i].d = h.d /\ ev[i].w = subs[h.d][n]
        /\ ~changed => objs[h.c][h.x] = h.z /\ Len(ev) = 1

\* the container p, with the keys and values of o, is written over o in a field a
\* watcher subscribes to
C4_Witness ==
  /\ Call("write") /\ ev[1].y = "p" /\ ev[1].z = "o" /\ objs["o"] = objs["p"]
  /\ Len(subs[ev[1].d]) > 0
  /\ \E i \in 1..Len(ev) : ev[i].t = "update" /\ ev[i].d = ev[1].d

----------------------------------------------------------------------------
(* Re-runs: default-mode watchers of the container field data.o and of the  *)
(* path data.o.x, one of these deep; writes of data.o.x and of data.o, a    *)
(* structural add to data.o; flushes.                                       *)

NextRerun ==
  \/ CreateWatcher({PO, POx, PDeepOx}, MaxWatchers)
  \/ Write(({"o"} \X {"x"} \X {"1", "2"}) \cup ({"data"} \X {"o"} \X {"o", "p"}))
  \/ SetOp({"o"})
  \/ Flush

SpecRerun == Init /\ [][NextRerun]_vars

\* C5: when a flush re-runs an active watcher, its callback is invoked (once) if and
\* only if the value its expression has now is not identical to the cached value, or
\* is a container, or the watcher is deep; the callback gets (the new value, the value
\* cached before), and the new value is the cached value afterwards.
C5_CallbackIffChanged ==
  [][ev'[1].t = "flush" =>
       \A w \in Watchers :
         (InSeq(w, queue) /\ ws[w].active) =>
           /\ Cardinality(CbEvents(ev', w)) =
                IF \/ ~StrictEq(Watched(w)', ws[w].value)
                   \/ IsObject(Watched(w)')
                   \/ ws[w].deep
                THEN 1 ELSE 0
           /\ \A j \in CbEvents(ev', w) :
                ev'[j].x = Watched(w)' /\ ev'[j].y = ws[w].value
           /\ ws'[w].value = Watched(w)']_vars

\* a deep watcher of data.o.x was re-run after p was written over o: the value is
\* the same and the callback was invoked
C5_Witness ==
  /\ Call("flush")
  /\ \E w \in Watchers :
       /\ ws[w].deep /\ ws[w].getter = "ox" /\ objs["data"]["o"] = "p"
       /\ \E j \in CbEvents(ev, w) : ev[j].x = "1" /\ ev[j].y = "1"

----------------------------------------------------------------------------
(* Scheduling: up to MaxQueued default-mode watchers of data.a and data.b;  *)
(* writes, flushes.                                                         *)

NextSched ==
  \/ CreateWatcher({PA, PB}, MaxQueued)
  \/ Write({"data"} \X {"a", "b"} \X {"1", "2"})
  \/ Flush

SpecSched == Init /\ [][NextSched]_vars

\* a watcher in default mode: neither computed nor sync
DefaultMode(w) == ~ws[w].computed /\ ~ws[w].sync

\* C6: with a default-mode watcher of data.a that holds 1, the write data.a = 2
\* invokes no callback, and the flush that follows invokes the watcher's callback
\* exactly once, with (2, 1).
C6_EndToEnd ==
  /\ [](Call("write") =>
          \A i \in 1..Len(ev) : ev[i].t = "cb" => ~DefaultMode(ev[i].w))
  /\ [][(/\ Call("write") /\ ev[1].c = "data" /\ ev[1].x = "a"
         /\ ev[1].y = "2" /\ ev[1].z = "1"
         /\ ev'[1].t = "flush") =>
          \A w \in Watchers :
            (/\ ws[w].active /\ DefaultMode(w)
             /\ ws[w].getter = "a" /\ ws[w].value = "1") =>
              /\ Cardinality(CbEvents(ev', w)) = 1
              /\ \A j \in CbEvents(ev', w) : ev'[j].x = "2" /\ ev'[j].y = "1"]_vars

\* a flush has invoked the callback of a watcher of data.a with (2, 1)
C6_Witness ==
  /\ Call("flush")
  /\ \E w \in Watchers :
       /\ ws[w].getter = "a" /\ ws[w].active /\ ws[w].value = "2"
       /\ \E j \in CbEvents(ev, w) : ev[j].x = "2" /\ ev[j].y = "1"

\* C8: the queue never holds a watcher id twice; a default-mode watcher that a write
\* notified is in the queue once, however often it was notified; and a flush runs
\* every watcher of the queue exactly once, and no other.
C8_DedupWithinFlush ==
  /\ [](\A i, j \in 1..Len(queue) : i # j => ws[queue[i]].id # ws[queue[j]].id)
  /\ [](Call("write") =>
          \A i \in 1..Len(ev) :
            (ev[i].t = "update" /\ DefaultMode(ev[i].w)) =>
              Cardinality({n \in 1..Len(queue) : queue[n] = ev[i].w}) = 1)
  /\ [][ev'[1].t = "flush" =>
          \A w \in Watchers :
            Cardinality(RunEvents(ev', w)) = IF InSeq(w, queue) THEN 1 ELSE 0]_vars

\* a write notified a watcher that was in the queue already
C8_Witness ==
  /\ Call("write")
  /\ \E i \in 1..Len(ev) :
       ev[i].t = "update" /\ ev[i].z = "queued" /\ InSeq(ev[i].w, queue)

----------------------------------------------------------------------------
(* Structural change: watchers of data.a, of data.o.x, a deep watcher of    *)
(* data.o and a deep watcher whose function returns data; set of a new key  *)
(* of data and of data.o, writes, flushes.                                  *)

NextStruct ==
  \/ CreateWatcher({PA, POx, PDeepData, PDeepO}, MaxWatchers)
  \/ Write({"data"} \X {"a"} \X {"1", "2"})
  \/ SetOp({"data", "o"})
  \/ Flush

SpecStruct == Init /\ [][NextStruct]_vars

\* the last call was set(c, key, value) of a key that c, observed and not the root
\* data of an instance, did not have
SetNew(c) ==
  /\ Call("set") /\ ev[1].c = c /\ ev[1].z = Absent
  /\ ob[c] # NoDep /\ vmCount[c] = 0

\* watcher w is a deep watcher whose value is the container c
DeepOver(w, c) == ws[w].active /\ ws[w].deep /\ ws[w].value = c

\* watcher w is a deep watcher whose getter reads c out of the reactive field data.o
DeepOverField(w, c) == DeepOver(w, c) /\ ws[w].getter = "o"

\* watcher w is a non-deep watcher of one field of c alone, and holds its value
FieldOf(w, c) ==
  /\ ws[w].active /\ ~ws[w].deep /\ ws[w].value = Watched(w)
  /\ \/ c = "data" /\ ws[w].getter = "a"
     \/ c = "o" /\ ws[w].getter = "ox" /\ objs["data"]["o"] = "o"

\* after set(c, key, value) of a new key, the deep watchers of c are queued for the
\* next flush
QueuedAfterSet(Deep(_, _)) ==
  \A c \in Cont : SetNew(c) =>
    \A w \in Watchers : Deep(w, c) => InSeq(w, queue) /\ waiting

\* the flush that follows set(c, key, value) of a new key invokes the callbacks of the
\* deep watchers of c, once, and not those of the non-deep watchers of a field of c
FlushAfterSet(Deep(_, _)) ==
  \A c \in Cont : (SetNew(c) /\ ev'[1].t = "flush") =>
    \A w \in Watchers :
      /\ Deep(w, c) => Cardinality(CbEvents(ev', w)) = 1
      /\ FieldOf(w, c) => CbEvents(ev', w) = {}

\* C7 as stated: after set(c, key, value) of a key that the observed container c did
\* not have, every deep watcher whose value is the whole container is queued and the
\* next flush invokes its callback, and not that of a non-deep watcher of c.a alone.
C7_StructuralAddAnyDeep ==
  /\ []QueuedAfterSet(DeepOver)
  /\ [][FlushAfterSet(DeepOver)]_vars

\* C7, amended: the same for the deep watchers that read the container out of a
\* reactive field, whose getter registers them with the container's structural Dep.
C7_StructuralAdd ==
  /\ []QueuedAfterSet(DeepOverField)
  /\ [][FlushAfterSet(DeepOverField)]_vars

\* a flush after set(o, "c", 1) invoked the callback of a deep watcher of data.o and
\* re-ran a watcher of data.o.x without invoking its callback
C7_Witness ==
  /\ Call("flush")
  /\ \E v, w \in Watchers :
       /\ DeepOverField(v, "o") /\ CbEvents(ev, v) # {} /\ ev[2].t = "run"
       /\ objs["o"]["c"] = "1" /\ fdep["o"]["c"] \in lastRead[v]
       /\ FieldOf(w, "o") /\ RunEvents(ev, w) # {} /\ CbEvents(ev, w) = {}

----------------------------------------------------------------------------
(* Computed watchers (Spec) *)

\* C10: constructing a computed watcher runs no getter; a computed watcher whose Dep
\* has no subscribers, when a dependency notifies it, runs no getter and is dirty;
\* and a computed watcher's getter runs at most once between two notifications,
\* however often the property is read.
C10_ComputedLaziness ==
  /\ (Call("new") /\ ws[ev[1].w].computed) => Len(ev) = 1 /\ ws[ev[1].w].dirty
  /\ \A i \in 1..Len(ev) :
       (ev[i].t = "update" /\ ev[i].x = "lazy") =>
         /\ \A j \in 1..Len(ev) : j > i => ~(ev[j].t = "get" /\ ev[j].w = ev[i].w)
         /\ ws[ev[i].w].dirty
  /\ \A w \in Watchers : ws[w].computed => runs[w] <= 1

\* a computed property without subscribers was read again after its getter had run
\* once: the read ran no getter
C10_Witness ==
  /\ Call("evaluate") /\ Len(ev) = 1
  /\ ws[ev[1].w].computed /\ Len(subs[ws[ev[1].w].dep]) = 0
  /\ runs[ev[1].w] = 1 /\ ~ws[ev[1].w].dirty

----------------------------------------------------------------------------
(* Cycles: the containers o and p hold a primitive or a container, each     *)
(* other and themselves included, and are plain, sealed (not extensible),    *)
(* frozen or VNodes; observe and traverse of any value, a deep watcher of    *)
(* data.o.                                                                   *)

\* data = {a: 1, b: 1, o: o}, o = {x: ox}, p = {x: px}, o of kind ko and p of kind kp
Graph(ox, px, ko, kp) ==
  [Blank EXCEPT !.objs["o"]["x"] = ox, !.objs["p"]["x"] = px,
                !.kind["o"] = ko, !.kind["p"] = kp]

InitCycle ==
  \E ox \in {"1", "o", "p", "data"}, px \in {"1", "o", "p"} :
    \E ko, kp \in {"plain", "sealed", "frozen", "vnode"} :
      Is(Graph(ox, px, ko, kp))

NextCycle ==
  \/ ObserveOp(Cont \cup {"1"}, {FALSE})
  \/ TraverseOp(Cont \cup {"1"})
  \/ CreateWatcher({PDeepO}, 1)

SpecCycle == InitCycle /\ [][NextCycle]_vars

\* the last top-level call was traverse(v) or observe(v), or made them
CycleCall == Len(ev) > 0 /\ ev[1].t \in {"traverse", "observe", "new"}

----------------------------------------------------------------------------
(* Update loops: default-mode watchers of data.a, whose callback writes      *)
(* nothing or writes data.a again; writes, flushes.                          *)

NextLoop ==
  \/ CreateWatcher({PA, PLoop}, MaxWatchers)
  \/ Write({"data"} \X {"a"} \X {"1", "2"})
  \/ Flush

SpecLoop == Init /\ [][NextLoop]_vars

\* the callback of watcher w, invoked in the last top-level call, wrote its own dependency
Retriggers(w) ==
  /\ ws[w].cb = "toggle"
  /\ \E i \in 1..Len(ev) : ev[i].t = "cb" /\ ev[i].w = w

\* C12: a flush in which the callback of a watcher queues the watcher again every time
\* it is invoked ends with the report "infinite update loop" naming such a watcher, whose
\* callback has been invoked MaxUpdateCount + 1 times by then and no such callback more often;
\* the flush has stopped there (the report is its last step) and the scheduler is idle
C12_InfiniteLoopDetection ==
  (Call("flush") /\ \E w \in Watchers : Retriggers(w)) =>
    /\ ev[Len(ev)] \in {LoopWarning(w) : w \in {v \in Watchers : Retriggers(v)}}
    /\ Cardinality(CbEvents(ev, ev[Len(ev)].w)) = MaxUpdateCount + 1
    /\ \A w \in Watchers : Retriggers(w) => Cardinality(CbEvents(ev, w)) <= MaxUpdateCount + 1
    /\ \A i \in 1..(Len(ev) - 1) : ev[i].t # "warn"
    /\ ~flushing /\ ~waiting /\ queue = <<>>

\* a flush ran a watcher whose callback writes data.a, and reported it
C12_Witness ==
  /\ Call("flush")
  /\ \E w \in Watchers : Retriggers(w) /\ ev[Len(ev)] = LoopWarning(w)

----------------------------------------------------------------------------
(* Teardown (Spec) *)

\* watcher w is in the subscriber list of some Dep
Subscribed(w) == \E d \in DOMAIN subs : InSeq(w, subs[d])

\* the last top-level call notified watcher w: a Dep called its update()
Notified(w) == \E i \in 1..Len(ev) : ev[i].t = "update" /\ ev[i].w = w

\* C13: a watcher that teardown() was called on is in the subscriber list of no Dep
\* and is notified by none
C13_TornDownUnsubscribed ==
  \A w \in Watchers : ~ws[w].active => ~Subscribed(w) /\ ~Notified(w)

\* the scheduler ran watcher w at position i of the log and the run did nothing: the
\* next step of the log, if any, is the run of the next watcher of the queue
IdleRun(i) == i = Len(ev) \/ ev[i + 1].t = "run"

\* C14: the callback of a watcher that teardown() was called on is not invoked, and
\* when the scheduler runs such a watcher, which was in the queue when it was torn
\* down, the run does nothing: its getter is not evaluated
C14_NoCallbackAfterTeardown ==
  /\ \A i \in 1..Len(ev) : ev[i].t = "cb" => ws[ev[i].w].active
  /\ Call("flush") =>
       \A i \in 1..Len(ev) : (ev[i].t = "run" /\ ~ws[ev[i].w].active) => IdleRun(i)

\* a flush ran a watcher that was torn down while it was in the queue
C14_Witness ==
  /\ Call("flush")
  /\ \E i \in 1..Len(ev) : ev[i].t = "run" /\ ~ws[ev[i].w].active /\ IdleRun(i)

\* the program state, the event log and the history apart
ProgramState ==
  <<objs, keys, ob, vmCount, fdep, fchild, subs, depUid, target, targetStack, ws, uid,
    queue, has, waiting, ticks, flushing, index, seen, circular, shouldObserve, kind,
    vmWatchers, customSetter, production, cache, html, stack, lastTag>>

\* C15: teardown() of a watcher that is inactive already changes nothing: no subscriber
\* list of a Dep, not the watcher list of the owner, no flag of the watcher, nor
\* anything else of the program state
C15_TeardownIdempotent ==
  [][(Call("teardown")' /\ ev'[1].z = "inactive") => ProgramState' = ProgramState]_vars

\* teardown() was called on a watcher that was inactive and is in a subscriber list
C15_Witness ==
  /\ Call("teardown") /\ ev[1].z = "inactive"
  /\ ~ws[ev[1].w].active /\ Subscribed(ev[1].w)

----------------------------------------------------------------------------
(* Observation: the containers o and p are plain, sealed (not extensible),   *)
(* frozen, VNodes, Vue instances or instances of a class; nothing is         *)
(* observed at first; observe of any value, as root data or not,             *)
(* toggleObserving, writes of data.o, set of a new key of data.              *)

InitObserve ==
  \E ko, kp \in {"plain", "sealed", "frozen", "vnode", "vue", "class"} :
    Is(Graph("1", "1", ko, kp))

NextObserve ==
  \/ ObserveOp(Cont \cup {"1"}, BOOLEAN)
  \/ ToggleObserving
  \/ Write({"data"} \X {"o"} \X {"o", "p"})
  \/ SetOp({"data"})

SpecObserve == InitObserve /\ [][NextObserve]_vars

\* the Observer the last call, an observe, returned
Returned == ev[Len(ev)].d

\* C16: the Observer attached to a container is attached for good and is the Observer
\* of no other container; observe(v) of a container that has an Observer returns that
\* Observer and makes no field reactive again: no Dep is made, no field gets another Dep
C16_OneObserver ==
  /\ [](\A c1, c2 \in Cont : (ob[c1] # NoDep /\ c1 # c2) => ob[c1] # ob[c2])
  /\ [](Call("observe") /\ ev[1].d # NoDep => Returned = ev[1].d /\ ob[ev[1].x] = ev[1].d)
  /\ [][/\ \A c \in Cont : ob[c] # NoDep => ob'[c] = ob[c]
        /\ \A c \in Cont : (Call("observe")' /\ ev'[1].x = c /\ ob[c] # NoDep) =>
             fdep' = fdep /\ fchild' = fchild /\ depUid' = depUid /\ subs' = subs]_vars

\* observe was called on a container that had an Observer and reactive fields
C16_Witness ==
  /\ Call("observe") /\ ev[1].d # NoDep /\ Returned = ev[1].d
  /\ \E k \in Key : fdep[ev[1].x][k] # NoDep

\* the value observe was called with, and whether observation was enabled then
Observed == ev[1].x
Enabled == ev[1].z = "on"

----------------------------------------------------------------------------
(* set: deep watchers of data.o; set of the keys x and c of o (observed) and  *)
(* of p (not observed); set and del with targets that are no containers; o   *)
(* made the root data of a component; flushes.                               *)

NextSet ==
  \/ CreateWatcher({PDeepO}, MaxWatchers)
  \/ SetKey({"o", "p"} \cup NonContainer, {"x", "c"}, {"1", "2"})
  \/ DelKey(NonContainer, {"c"})
  \/ ObserveOp({"o"}, {TRUE})
  \/ Flush

SpecSet == Init /\ [][NextSet]_vars

\* the positions of the log at which Dep d notified its subscribers
Notifications(d) == {i \in 1..Len(ev) : ev[i].t = "notify" /\ ev[i].d = d}

\* the last top-level call was set(c, k, v) or del(c, k) with a container c; Target, TKey
\* and Given are c, k and v, Held the value c[k] held (Absent: no such key) and
\* Structural the Dep of the Observer c had (NoDep: none)
OnContainer(t) == Call(t) /\ ev[1].c \in Cont
Target == ev[1].c
TKey == ev[1].x
Given == ev[1].y
Held == ev[1].z
Structural == ev[1].d

\* set of a key that exists is the plain write: the key holds the value, the Dep of a
\* reactive field has notified iff the value changed, the structural Dep has not
SetExisting ==
  /\ objs[Target][TKey] = Given
  /\ fdep[Target][TKey] # NoDep =>
       (Notifications(fdep[Target][TKey]) # {} <=> Given # Held)
  /\ fdep[Target][TKey] = NoDep => \A i \in 1..Len(ev) : ev[i].t # "notify"
  /\ Structural # NoDep => Notifications(Structural) = {}

\* set of a key that does not exist has added it as a reactive field and the structural
\* Dep has notified once
SetAdded ==
  /\ objs[Target][TKey] = Given /\ InSeq(TKey, keys[Target])
  /\ fdep[Target][TKey] # NoDep
  /\ Structural # NoDep /\ Cardinality(Notifications(Structural)) = 1

\* set(container, key, value) on a keyed container: the plain write if the key exists;
\* if not, the key is added as a reactive field and the structural Dep notifies once
C18_SetAsStated ==
  OnContainer("set") => IF Held # Absent THEN SetExisting ELSE SetAdded

\* C18: set(container, key, value) on a keyed container: the plain write if the key
\* exists; if it does not exist and the container is observed and not the root data of
\* a component, the key is added as a reactive field and the structural Dep notifies once
C18_Set ==
  OnContainer("set") =>
    IF Held # Absent THEN SetExisting
    ELSE (Structural # NoDep /\ vmCount[Target] = 0) => SetAdded

\* set added a key to an observed container whose structural Dep had a subscriber
C18_Witness ==
  /\ OnContainer("set") /\ Held = Absent /\ SetAdded
  /\ \E i \in 1..Len(ev) : ev[i].t = "update" /\ ev[i].d = Structural

----------------------------------------------------------------------------
(* del: watchers and deep watchers of data.o; del of the keys x (present)    *)
(* and c (absent) of o (observed) and of p (not observed); o made the root   *)
(* data of a component; flushes.                                             *)

NextDel ==
  \/ CreateWatcher({PO, PDeepO}, MaxWatchers)
  \/ DelKey({"o", "p"}, {"x", "c"})
  \/ ObserveOp({"o"}, {TRUE})
  \/ Flush

SpecDel == Init /\ [][NextDel]_vars

\* del has removed the key, and the structural Dep has notified, once, every watcher in
\* its subscriber list
DelRemoved ==
  /\ objs[Target][TKey] = Absent /\ ~InSeq(TKey, keys[Target])
  /\ Cardinality(Notifications(Structural)) = 1
  /\ \A w \in Watchers : InSeq(w, subs[Structural]) =>
       \E i \in 1..Len(ev) : ev[i].t = "update" /\ ev[i].w = w /\ ev[i].d = Structural

\* delete(container, key) on an observed keyed container removes the key and notifies
\* the structural Dep of the container, and so every watcher subscribed to it
C19_DelAsStated ==
  (OnContainer("del") /\ Structural # NoDep) => DelRemoved

\* C19: delete(container, key) on an observed keyed container that is not the root data
\* of a component and holds the key removes the key and notifies the structural Dep of
\* the container, and so every watcher subscribed to it
C19_Del ==
  (OnContainer("del") /\ Structural # NoDep /\ vmCount[Target] = 0 /\ Held # Absent) =>
    DelRemoved

\* del removed a key of an observed container whose structural Dep had subscribers
C19_Witness ==
  /\ OnContainer("del") /\ Structural # NoDep /\ vmCount[Target] = 0 /\ Held # Absent
  /\ DelRemoved
  /\ \E w \in Watchers : InSeq(w, subs[Structural])

----------------------------------------------------------------------------
(* Misuse of set and del (SpecSet) *)

\* the last top-level call was set or del with a target that is undefined, null or a
\* primitive
Misuse == (Call("set") \/ Call("del")) /\ ev[1].c \in NonContainer

\* the last top-level call gave the warning of a target that is no container
MisuseWarned == \E i \in 1..Len(ev) : ev[i] = MisuseWarning

\* the last top-level call threw no exception
NothingThrown == \A i \in 1..Len(ev) : ev[i].t # "throw"

\* C20: set or del with a target that is undefined, null or a primitive warns and
\* returns: it throws no exception and changes nothing of the program state
C20_MisuseIsNoOp ==
  /\ [](Misuse => MisuseWarned /\ NothingThrown)
  /\ [][Misuse' => ProgramState' = ProgramState]_vars

----------------------------------------------------------------------------
(* Errors: default-mode watchers of data.a whose getter throws when data.a   *)
(* is 2 or whose callback throws, user watchers and others; writes, flushes. *)

NextError ==
  \/ CreateWatcher({PThrow, PThrowIn, PCbThrow, PCbThrowIn}, MaxWatchers)
  \/ Write({"data"} \X {"a"} \X {"1", "2"})
  \/ Flush

SpecError == Init /\ [][NextError]_vars

----------------------------------------------------------------------------
(* Errors of getters and callbacks *)

\* the entries of the event log where a getter or a callback threw
Throws == {i \in 1..Len(ev) : ev[i].t = "throw" /\ ev[i].x = "Error"}

\* the exception thrown at entry i of the log went to the error hook at once
Reported(i) ==
  /\ i < Len(ev)
  /\ ev[i + 1].t = "report" /\ ev[i + 1].w = ev[i].w
  /\ ev[i + 1].x \in {"getter", "callback"}

\* the exception thrown at entry i of the log ended the top-level call
Escaped(i) == i = Len(ev)

\* C21: an exception thrown by the getter or the callback of a watcher leaves the
\* evaluation or run, and with it the whole top-level call, exactly when the watcher is
\* not a user watcher; the exception of a user watcher goes to the error hook, the
\* watcher stays active, and execution continues: a flush in which only user watchers
\* threw runs to its end.
C21_ErrorContainment ==
  /\ \A i \in Throws :
        IF ws[ev[i].w].user
        THEN Reported(i) /\ ws[ev[i].w].active
        ELSE Escaped(i) /\ Thrown(Cur)
  /\ Thrown(Cur) => \E i \in Throws : ~ws[ev[i].w].user
  /\ (Call("flush") /\ ~Thrown(Cur)) => (queue = <<>> /\ ~flushing /\ ~waiting)

\* a flush in which the getter of one user watcher and the callback of another threw,
\* both watchers run
C21_Witness ==
  /\ Call("flush") /\ ~Thrown(Cur)
  /\ \E i, j \in Throws :
        /\ i < j /\ ev[i].w # ev[j].w
        /\ ev[i + 1].x # ev[j + 1].x

\* a top-level call that the exception of a watcher that is no user watcher ended
C21_WitnessEscape == \E i \in Throws : ~ws[ev[i].w].user /\ Call("flush")

----------------------------------------------------------------------------
(* Batching (SpecSched) *)

\* the top-level call that ends in the state ran watcher w
RanIn(log, w) == RunEvents(log, w) # {}

\* C22: however many writes notify watchers before the next tick, at most one flush is
\* scheduled, and it is scheduled exactly while watchers are pending; no write runs a
\* default-mode watcher, the flush runs at the tick after the writes; and that one flush
\* handles all the writes: it runs every pending watcher, after it no watcher is pending,
\* no flush is scheduled and every active watcher holds the value its expression has.
C22_Batching ==
  /\ [](ticks <= 1 /\ (ticks = 1 <=> queue # <<>>))
  /\ [][ev'[1].t = "write" =>
          /\ \A w \in Watchers : DefaultMode(w) => ~RanIn(ev', w)
          /\ ticks' = IF queue' # <<>> THEN 1 ELSE 0]_vars
  /\ [][ev'[1].t = "flush" =>
          /\ \A n \in 1..Len(queue) : RanIn(ev', queue[n])
          /\ queue' = <<>> /\ has' = {} /\ ticks' = 0 /\ ~waiting'
          /\ \A w \in 1..Len(ws') :
               ws'[w].active => ws'[w].value = Watched(w)']_vars

\* one flush has invoked the callbacks of a watcher of data.a and of a watcher of
\* data.b, which two writes had notified, and no flush is scheduled
C22_Witness ==
  /\ Call("flush") /\ ticks = 0
  /\ \E v, w \in Watchers :
       /\ ws[v].getter = "a" /\ ws[w].getter = "b"
       /\ CbEvents(ev, v) # {} /\ CbEvents(ev, w) # {}

----------------------------------------------------------------------------
(* customSetter: the fields a and b of data, which has no Observer, defined  *)
(* by defineReactive with or without a customSetter, in a production build   *)
(* or another; watchers of data.a and data.b, writes, flushes.               *)

\* defineReactive(data, k, 1, custom ? customSetter : undefined)
DefineField(s, k, custom) ==
  IF custom THEN DefineReactiveCustom(s, "data", k, "1") ELSE DefineReactive(s, "data", k, "1")

InitCustom ==
  \E prod, ca, cb \in BOOLEAN :
    Is(DefineField(DefineField([Blank EXCEPT !.production = prod], "a", ca), "b", cb))

NextCustom ==
  \/ CreateWatcher({PA, PB}, MaxWatchers)
  \/ Write(({"data"} \X {"a"} \X {"1", "2", "NaN"}) \cup ({"data"} \X {"b"} \X {"1", "2"}))
  \/ Flush

SpecCustom == InitCustom /\ [][NextCustom]_vars

\* the calls of a customSetter in the log
CustomCalls(log) == {i \in 1..Len(log) : log[i].t = "customSetter"}

\* the state s without customSetters and their calls
Plain(s) ==
  [s EXCEPT !.customSetter = [c \in Cont |-> [k \in Key |-> FALSE]],
            !.ev = SelectSeq(s.ev, LAMBDA e : e.t # "customSetter")]

\* the write c[k] = y of the header h of a log changes the value z of the field
Changes(h) == ~StrictEq(h.y, h.z) /\ ~(h.y = "NaN" /\ h.z = "NaN")

\* the write of the header h from the state without customSetters
PlainWrite(h) == ReactiveSetter([Plain(Cur) EXCEPT !.ev = <<h>>], h.c, h.x, h.y)

\* C23 as stated: every write to a field defined with a customSetter calls the
\* customSetter, and the write stores and notifies as it does without customSetter.
C23_CustomSetterAsStated ==
  [][ev'[1].t = "write" =>
       /\ customSetter[ev'[1].c][ev'[1].x] => CustomCalls(ev') # {}
       /\ Plain(Cur)' = Plain(PlainWrite(ev'[1]))]_vars

\* C23: a write to a field defined with a customSetter calls the customSetter, once,
\* exactly when the write changes the value of the field and the build is not the
\* production build; and the write stores, observes, notifies and queues exactly as the
\* same write does when no field has a customSetter.
C23_CustomSetter ==
  [][ev'[1].t = "write" =>
       /\ Cardinality(CustomCalls(ev')) =
            IF customSetter[ev'[1].c][ev'[1].x] /\ Changes(ev'[1]) /\ ~production
            THEN 1 ELSE 0
       /\ \A i \in CustomCalls(ev') : ev'[i].c = ev'[1].c /\ ev'[i].x = ev'[1].x
       /\ Plain(Cur)' = Plain(PlainWrite(ev'[1]))]_vars

\* a write that called the customSetter of its field, stored its value and notified a
\* watcher
C23_Witness ==
  /\ Call("write") /\ CustomCalls(ev) # {}
  /\ objs[ev[1].c][ev[1].x] = ev[1].y
  /\ \E i \in 1..Len(ev) : ev[i].t = "update" /\ InSeq(ev[i].w, queue)

----------------------------------------------------------------------------
(* Watcher.get and traverse when an exception leaves them (SpecCycle, SpecError) *)

\* the dependency sets of watcher w are reconciled: nothing is left in newDeps and
\* newDepIds, depIds are the ids of deps, and w, while active, is a subscriber of each
Reconciled(w) ==
  /\ ws[w].newDeps = <<>> /\ ws[w].newDepIds = {}
  /\ ws[w].depIds = {ws[w].deps[n] : n \in 1..Len(ws[w].deps)}
  /\ ws[w].active => \A n \in 1..Len(ws[w].deps) : InSeq(w, subs[ws[w].deps[n]])

\* C24: every get of a watcher, whether it returns or an exception leaves it, has put the
\* stack of active targets back as it found it (after a top-level call, which starts with
\* no active target, there is none and the stack is empty) and has reconciled the
\* dependency sets of the watcher.
C24_GetRestores ==
  /\ target = NoTarget /\ targetStack = <<>>
  /\ \A w \in Watchers : Reconciled(w)

\* C30: after every top-level call of traverse(value), and after every top-level call
\* that made one (the get of a deep watcher), the set of visited containers is empty.
C30_SeenEmpty == seen = {}

----------------------------------------------------------------------------
(* Sync and default mode: a sync watcher whose reads depend on the data and  *)
(* default-mode watchers of data.a and data.b; writes, flushes.              *)

NextSync ==
  \/ CreateWatcher({PCond, PA, PB}, MaxWatchers)
  \/ Write({"data"} \X {"a", "b"} \X {"1", "2"})
  \/ Flush

SpecSync == Init /\ [][NextSync]_vars

\* the entries of the log that are evaluations (get) of watcher w
GetEvents(log, w) == {i \in 1..Len(log) : log[i].t = "get" /\ log[i].w = w}

\* entry i of the log is update() of watcher w, and get() of w follows at once
RunsAtOnce(log, i, w) == i < Len(log) /\ log[i + 1].t = "get" /\ log[i + 1].w = w

\* C25: a write that notifies an active sync watcher (not computed) re-evaluates the
\* watcher before it returns, update() running it at once, and has called its callback
\* when the value changed; a write that notifies a default-mode watcher does not run or
\* evaluate it nor call its callback: the watcher is in the scheduler's queue.
C25_SyncVersusDefault ==
  [][ev'[1].t = "write" =>
       \A i \in 1..Len(ev') :
         ev'[i].t = "update" =>
           /\ (ws[ev'[i].w].sync /\ ~ws[ev'[i].w].computed /\ ws[ev'[i].w].active) =>
                /\ RunsAtOnce(ev', i, ev'[i].w)
                /\ ws'[ev'[i].w].value # ws[ev'[i].w].value =>
                     \E j \in CbEvents(ev', ev'[i].w) :
                       j > i /\ ev'[j].x = ws'[ev'[i].w].value
           /\ DefaultMode(ev'[i].w) =>
                /\ RunEvents(ev', ev'[i].w) = {} /\ GetEvents(ev', ev'[i].w) = {}
                /\ CbEvents(ev', ev'[i].w) = {}
                /\ InSeq(ev'[i].w, queue') /\ ws'[ev'[i].w].value = ws[ev'[i].w].value]_vars

\* one write has run a sync watcher, callback included, and queued a default-mode
\* watcher
C25_Witness ==
  /\ Call("write")
  /\ \E v, w \in Watchers :
       /\ ws[v].sync /\ CbEvents(ev, v) # {}
       /\ DefaultMode(w) /\ InSeq(w, queue)
       /\ \E i \in 1..Len(ev) : ev[i].t = "update" /\ ev[i].w = w

----------------------------------------------------------------------------
(* Computed watchers with subscribers: computed watchers of data.o and of    *)
(* data.o.x, render watchers that read them; writes of data.o and o.x, set   *)
(* of a new key of o, flushes.                                               *)

NextComputed ==
  \/ CreateWatcher({PComputedO, PComputedOx, PRender}, MaxWatchers)
  \/ Write(({"data"} \X {"o"} \X {"o", "p"}) \cup ({"o"} \X {"x"} \X {"1", "2"}))
  \/ SetOp({"o"})
  \/ Flush

SpecComputed == Init /\ [][NextComputed]_vars

\* entry i of the log is update() of a computed watcher whose Dep had subscribers
Activated(log, i) ==
  log[i].t = "update" /\ ws[log[i].w].computed /\ log[i].x # "lazy"

\* the Dep of the computed watcher w notified its subscribers after entry i of the log
NotifiedOn(log, i, w) ==
  \E j \in 1..Len(log) : j > i /\ log[j].t = "notify" /\ log[j].d = ws[w].dep

\* a notified computed watcher with subscribers is evaluated at once
EagerWhenActivated ==
  [][\A i \in 1..Len(ev') : Activated(ev', i) => RunsAtOnce(ev', i, ev'[i].w)]_vars

\* C26: a computed watcher whose Dep has subscribers is evaluated at once when it is
\* notified, and its Dep notifies its subscribers only if the value the evaluation gave
\* is not the value the watcher had cached.
C26_ComputedEager ==
  [][\A i \in 1..Len(ev') :
       Activated(ev', i) =>
         /\ RunsAtOnce(ev', i, ev'[i].w)
         /\ NotifiedOn(ev', i, ev'[i].w) => ws'[ev'[i].w].value # ws[ev'[i].w].value]_vars

----------------------------------------------------------------------------
(* Cascades: watchers whose callbacks write: a watcher of data.a that copies *)
(* the value to data.b, one that sets data.a to 2 when it is 1, one that     *)
(* toggles data.a for ever, and a watcher of data.b; writes, flushes.        *)

NextCascade ==
  \/ CreateWatcher({PB, PAtoB, PFix, PLoop}, MaxWatchers)
  \/ Write({"data"} \X {"a", "b"} \X {"1", "2"})
  \/ Flush

SpecCascade == Init /\ [][NextCascade]_vars

\* the entries of the log of a flush that are runs of a watcher by the flush loop
Runs(log) == {i \in 1..Len(log) : log[i].t = "run"}

\* entry i of the log is update() of a default-mode watcher that put it in the queue:
\* its id was not in has
Enqueues(log, i) ==
  log[i].t = "update" /\ log[i].z # "queued" /\ DefaultMode(log[i].w)

\* the entry of the log at which the watcher run at entry k was put in the queue: the
\* last before k (0: before the flush)
EnqueuedAt(log, k) ==
  LET E == {i \in 1..(k - 1) : Enqueues(log, i) /\ log[i].w = log[k].w /\
                               \A j \in Runs(log) : j < k /\ log[j].w = log[k].w => j < i}
  IN  IF E = {} THEN 0 ELSE CHOOSE i \in E : \A j \in E : j <= i

\* the entries that were in the queue together and not yet run, the flush ran in
\* ascending order of id
PendingAscending(log) ==
  \A j, k \in Runs(log) :
    (j < k /\ EnqueuedAt(log, k) < j) => ws[log[j].w].id < ws[log[k].w].id

\* the loop guard ended the flush of the log
Tripped(log) == \E i \in 1..Len(log) : log[i] = LoopWarning(log[i].w)

\* the flush of the log ran the watcher that entry i put in the queue, after entry i
RanAfter(log, i) == \E k \in Runs(log) : k > i /\ log[k].w = log[i].w

OwnJob(log, j, i) ==
  /\ j \in Runs(log) /\ j < i /\ log[i].w = log[j].w
  /\ \A k \in Runs(log) : ~(j < k /\ k < i)

\* entry i of the log is the first update() of a watcher within its own job, started at j
SelfUpdate(log, j, i) ==
  /\ OwnJob(log, j, i) /\ log[i].t = "update"
  /\ \A k \in (j + 1)..(i - 1) : ~(log[k].t = "update" /\ log[k].w = log[i].w)

C29_FlushDrains ==
  [][(ev'[1].t = "flush" /\ ~Tripped(ev')) =>
       /\ queue' = <<>> /\ has' = {} /\ ~flushing'
       /\ \A n \in 1..Len(queue) : RanIn(ev', queue[n])
       /\ \A i \in 1..Len(ev') : Enqueues(ev', i) => RanAfter(ev', i)]_vars

\* a flush that the loop guard did not end ran two watchers that were put in the queue
\* while it ran
C29_Witness ==
  /\ Call("flush") /\ ~Tripped(ev) /\ queue = <<>>
  /\ \E i, k \in 1..Len(ev) :
       /\ i < k /\ Enqueues(ev, i) /\ Enqueues(ev, k) /\ ev[i].w # ev[k].w
       /\ RanAfter(ev, i) /\ RanAfter(ev, k)

\* the first run of watcher w in the log of a flush (0: none)
FirstRun(log, w) ==
  IF RunEvents(log, w) = {} THEN 0
  ELSE CHOOSE i \in RunEvents(log, w) : \A j \in RunEvents(log, w) : i <= j

----------------------------------------------------------------------------
(* Deep watchers: what traverse reaches (SpecCycle) *)

\* _traverse descends into container c: it is not frozen and no VNode
Descends(c) == kind[c] \notin {"frozen", "vnode"}

RECURSIVE ReachFrom(_, _)
\* the containers reachable from those of S in at most n steps through containers that
\* _traverse descends into
ReachFrom(S, n) ==
  IF n = 0 THEN S
  ELSE ReachFrom(S \cup {c \in Cont : Descends(c) /\
                           \E d \in S, k \in Key :
                             InSeq(k, keys[d]) /\ objs[d][k] = c}, n - 1)

\* the containers reachable from the value v
Reachable(v) ==
  IF IsObject(v) /\ Descends(v) THEN ReachFrom({v}, Cardinality(Cont)) ELSE {}

\* the last top-level call evaluated watcher w and no exception ended it
EvaluatedWhole(w) == GetEvents(ev, w) # {} /\ ~Thrown(Cur)

\* C31: after an evaluation of an active deep watcher whose value is v, the watcher is a
\* subscriber of the Dep of every reactive field of every container reachable from v
\* through containers that are not frozen and no VNodes.
C31_DeepComplete ==
  \A w \in Watchers :
    (ws[w].deep /\ ws[w].active /\ EvaluatedWhole(w)) =>
      \A c \in Reachable(ws[w].value) : \A k \in Key :
        (InSeq(k, keys[c]) /\ fdep[c][k] # NoDep) => InSeq(w, subs[fdep[c][k]])


----------------------------------------------------------------------------
(* The Observer a reactive field holds for its value: watchers of data.o,   *)
(* writes of data.o, observation switched off and on, observe(p), set and   *)
(* del on the nested containers.                                            *)

NextChild ==
  \/ CreateWatcher({PO, PDeepO}, 1)
  \/ Write({"data"} \X {"o"} \X {"o", "p"})
  \/ ToggleObserving
  \/ ObserveOp({"p"}, {FALSE})
  \/ SetKey({"o", "p"}, {"c"}, {"1"})
  \/ DelKey({"o", "p"}, {"c"})
  \/ Flush

SpecChild == Init /\ [][NextChild]_vars

\* the last top-level call evaluated watcher w, whose getter reads the reactive field
\* data.o, while data.o held the container c, which has an Observer
ReadChild(w, c) ==
  /\ ws[w].active /\ ws[w].getter = "o" /\ EvaluatedWhole(w)
  /\ objs["data"]["o"] = c /\ c \in Cont /\ ob[c] # NoDep

\* the call the step makes is set(c, k, v) of a key c does not have, or del(c, k) of a key
\* it has
Restructures(c) ==
  /\ ev'[1].t \in {"set", "del"} /\ ev'[1].c = c
  /\ (ev'[1].t = "set") = (ev'[1].z = Absent)

\* C32: a watcher that reads the reactive field data.o is a subscriber of the Dep of the
\* field and, when the value of the field is a container with an Observer, of the Dep of
\* that Observer; a set of a new key or a del on that container then notifies the watcher.
C32_ChildSubscription ==
  /\ [](\A w \in Watchers :
          (ws[w].active /\ ws[w].getter = "o" /\ EvaluatedWhole(w)) =>
            /\ InSeq(w, subs[fdep["data"]["o"]])
            /\ \A c \in Cont : ReadChild(w, c) => InSeq(w, subs[ob[c]]))
  /\ [][\A w \in Watchers : \A c \in Cont :
          (ReadChild(w, c) /\ Restructures(c)) =>
            \E i \in 1..Len(ev') : ev'[i].t = "update" /\ ev'[i].w = w /\ ev'[i].d = ob[c]]_vars


----------------------------------------------------------------------------
(* How a subscriber list shrinks (Spec) *)

\* the step removes watcher w from the subscriber list of Dep d
Leaves(w, d) == InSeq(w, subs[d]) /\ ~InSeq(w, subs'[d])

\* C33 as stated: a watcher leaves the subscriber list of a Dep only in its teardown
C33_OnlyTeardownShrinks ==
  [][\A w \in Watchers : \A d \in DOMAIN subs :
       Leaves(w, d) => (ev'[1].t = "teardown" /\ ev'[1].w = w)]_vars

\* C33, amended: a watcher leaves the subscriber list of a Dep only in its teardown or in
\* an evaluation of the watcher that did not read the Dep (cleanupDeps); no write, set,
\* delete or flush removes a watcher from a subscriber list otherwise.
C33_ShrinkOnly ==
  [][\A w \in Watchers : \A d \in DOMAIN subs :
       Leaves(w, d) =>
         \/ ev'[1].t = "teardown" /\ ev'[1].w = w
         \/ GetEvents(ev', w) # {} /\ d \in dropped'[w] /\ d \notin lastRead'[w]]_vars

\* a write re-evaluated a watcher, which left a Dep it had read before
C33_Witness ==
  \E w \in Watchers : \E d \in dropped[w] :
    /\ ev[1].t = "write" /\ GetEvents(ev, w) # {}
    /\ ~InSeq(w, subs[d]) /\ d \notin lastRead[w]


----------------------------------------------------------------------------
(* What vmCount decides in set and del (SpecSet) *)

\* set(c, k, v) and del(c, k) called in the present state with the vmCount of the Observer
\* of c being n
SetAt(c, k, v, n) ==
  Set([Start("set", 0, ob[c], c, k, v, objs[c][k]) EXCEPT !.vmCount[c] = n], c, k, v)
DelAt(c, k, n) ==
  Del([Start("del", 0, ob[c], c, k, "", objs[c][k]) EXCEPT !.vmCount[c] = n], c, k)

\* what a call notified: the notify and update entries of its log
NotesOf(s) == SelectSeq(s.ev, LAMBDA e : e.t \in {"notify", "update"})

\* the calls that ended in s and in t left the same contents and notified the same
SameEffect(s, t) ==
  s.objs = t.objs /\ s.keys = t.keys /\ NotesOf(s) = NotesOf(t)

\* the call that ended in s changed no contents and notified nobody
NoEffect(s) == s.objs = objs /\ s.keys = keys /\ NotesOf(s) = <<>>

\* C34 as stated: whatever the vmCount of the Observer of a container, set and del leave
\* the same contents and notify the same
C34_CountGatesWarningsOnly ==
  \A c \in {"o", "p"} : \A k \in {"x", "c"} : \A n, m \in {0, 1, 2} :
    ob[c] # NoDep =>
      /\ \A v \in {"1", "2"} : SameEffect(SetAt(c, k, v, n), SetAt(c, k, v, m))
      /\ SameEffect(DelAt(c, k, n), DelAt(c, k, m))

\* C34, amended: set of a key the container has leaves the same contents and notifies the
\* same whatever the vmCount of its Observer; set of a new key, and del, do so for two
\* counts that are both zero or both above zero, and with a count above zero they change
\* nothing and notify nobody.
C34_CountGatesChange ==
  \A c \in {"o", "p"} : \A k \in {"x", "c"} : \A n, m \in {0, 1, 2} :
    ob[c] # NoDep =>
      /\ \A v \in {"1", "2"} :
           /\ (objs[c][k] # Absent \/ (n > 0) = (m > 0)) =>
                SameEffect(SetAt(c, k, v, n), SetAt(c, k, v, m))
           /\ (objs[c][k] = Absent /\ n > 0) => NoEffect(SetAt(c, k, v, n))
      /\ (n > 0) = (m > 0) => SameEffect(DelAt(c, k, n), DelAt(c, k, m))
      /\ n > 0 => NoEffect(DelAt(c, k, n))

\* set of a new key was called on a container that is the root data of a component, and
\* the same call with the count zero would have added the key
C34_Witness ==
  /\ OnContainer("set") /\ Held = Absent /\ Structural # NoDep
  /\ vmCount[Target] > 0 /\ objs[Target][TKey] = Absent
  /\ SetAt(Target, TKey, "1", 0).objs[Target][TKey] = "1"


----------------------------------------------------------------------------
(* The cache of a computed watcher: a computed watcher of data.o.x, read    *)
(* while data.o holds an observed container; writes of data.o, observation  *)
(* switched off and on, observe(p), del of x on an observed container.      *)

\* the container data.o holds has an Observer
ChildObserved == IsObject(objs["data"]["o"]) /\ ob[objs["data"]["o"]] # NoDep

\* a read of a computed property while data.o holds an observed container
EvaluateObserved == ChildObserved /\ EvaluateOp

NextCache ==
  \/ CreateWatcher({PComputedOx}, 1)
  \/ EvaluateObserved
  \/ Write({"data"} \X {"o"} \X {"o", "p"})
  \/ ToggleObserving
  \/ ObserveOp({"p"}, {FALSE})
  \/ DelKey({c \in {"o", "p"} : ob[c] # NoDep}, {"x"})

SpecCache == Init /\ [][NextCache]_vars

\* C35: the value an active computed watcher that is not dirty holds is the value its
\* getter returns in the present state: a write that changes a field the watcher read
\* has marked it dirty or has evaluated it again.
C35_CacheCoherent ==
  \A w \in Watchers :
    (ws[w].computed /\ ws[w].active /\ ~ws[w].dirty) => ws[w].value = Watched(w)



----------------------------------------------------------------------------
(* Arrays: o and p are plain objects or Arrays whose one element is 1, o or *)
(* p; data is observed; watchers of data.o, writes of data.o, flushes.      *)

InitArray ==
  \E ox, px \in {"1", "o", "p"} : \E ko, kp \in {"plain", "array"} :
    Is(Observe(Graph(ox, px, ko, kp), "data"))

NextArray ==
  \/ CreateWatcher({PO, PComputedO, PRender}, MaxWatchers)
  \/ Write({"data"} \X {"o"} \X {"o", "p"})
  \/ Flush

SpecArray == InitArray /\ [][NextArray]_vars

\* the entries of the log at which the call stack was exhausted
Overflows == {i \in 1..Len(ev) : ev[i].t = "throw" /\ ev[i].x = "RangeError"}

\* C36: a read of the reactive field data.o while a watcher is being evaluated returns,
\* whatever Array the field holds, an Array that holds itself or holds an Array that
\* holds it included: the call stack is not exhausted.
C36_ReadTerminates == Overflows = {}


----------------------------------------------------------------------------
(* evaluate() of a watcher that was torn down (Spec) *)

\* the call the step makes is a read of the computed property of watcher w
Evaluates(w) == ev'[1].t = "evaluate" /\ ev'[1].w = w

\* C37: evaluate() of a computed watcher that was torn down leaves the subscriber list of
\* every Dep as it was, whichever fields the getter reads.
C37_EvaluateAfterTeardown ==
  [][\A w \in Watchers :
       (Evaluates(w) /\ ~ws[w].active) => \A d \in DOMAIN subs : subs'[d] = subs[d]]_vars


----------------------------------------------------------------------------
(* A getter that throws in a run: user watchers, deep and not, whose getter *)
(* reads data.b and throws while data.a is 2; writes of data.a and data.b,  *)
(* flushes.                                                                 *)

NextGetterThrow ==
  \/ CreateWatcher({PThrowB, PThrowDeep}, MaxWatchers)
  \/ Write({"data"} \X {"a", "b"} \X {"1", "2"})
  \/ Flush

SpecGetterThrow == Init /\ [][NextGetterThrow]_vars

\* the getter of watcher w threw in the call that made the log
GetterThrew(log, w) ==
  \E i \in 1..Len(log) : log[i].t = "throw" /\ log[i].w = w /\ log[i].x = "Error"

\* C38: when the getter of a user watcher throws in a run of a flush, the run goes on as if
\* the getter had returned undefined: the callback is invoked, with (undefined, the value
\* held before), if and only if the value held before is not undefined or the watcher is
\* deep, and the watcher holds undefined afterwards.
C38_GetterThrowAsUndefined ==
  [][ev'[1].t = "flush" =>
       \A w \in Watchers :
         (InSeq(w, queue) /\ ws[w].active /\ ws[w].user /\ GetterThrew(ev', w)) =>
           /\ Cardinality(CbEvents(ev', w)) =
                IF ws[w].value # "undefined" \/ ws[w].deep THEN 1 ELSE 0
           /\ \A j \in CbEvents(ev', w) :
                ev'[j].x = "undefined" /\ ev'[j].y = ws[w].value
           /\ ws'[w].value = "undefined"]_vars

\* a flush in which the getters of two user watchers that held undefined threw: the
\* callback of the deep one was invoked with (undefined, undefined), that of the other not
C38_Witness ==
  /\ Call("flush")
  /\ \E v, w \in Watchers :
       /\ GetterThrew(ev, v) /\ GetterThrew(ev, w)
       /\ ws[v].deep /\ ~ws[w].deep /\ CbEvents(ev, w) = {}
       /\ \E j \in CbEvents(ev, v) : ev[j].x = "undefined" /\ ev[j].y = "undefined"


----------------------------------------------------------------------------
(* compiler/to-function.js: the cache of compileToFunctions.  Templates and *)
(* delimiters are strings of the characters a and ","; options.delimiters   *)
(* is undefined (<<>>) or an Array of two strings.                          *)

MaxTemplate == 3
MaxCached == 1

Chars == {"a", ","}

RECURSIVE Strings(_)
\* the strings of at most n characters
Strings(n) ==
  IF n = 0 THEN {""}
  ELSE With(Strings(n - 1), LAMBDA S : S \cup {str \o c : str \in S, c \in Chars})

Templates == Strings(MaxTemplate)
Delimiters == {<<>>} \cup {<<open, close>> : open \in Chars, close \in Chars}

\* String(options.delimiters): the elements of the Array joined by ","
StringOfArray(delims) == delims[1] \o "," \o delims[2]

\* const key = options.delimiters ? String(options.delimiters) + template : template
CacheKey(template, delims) ==
  IF delims # <<>> THEN StringOfArray(delims) \o template ELSE template

\* the entries of the cache under the key (cache[key])
Cached(s, key) == {i \in 1..Len(s.cache) : s.cache[i].key = key}

\* compileToFunctions(template, options): the log records the call of compile and, as
\* the value returned, the entry of the cache (d) and the template and the delimiters
\* its functions were compiled from (x, y)
CompileToFunctions(s, template, delims) ==
  With(CacheKey(template, delims), LAMBDA key :
    IF Cached(s, key) # {}
    THEN With(CHOOSE i \in Cached(s, key) : TRUE, LAMBDA i :
           Log(s, Ev("return", 0, i, "", s.cache[i].template, s.cache[i].delimiters, "")))
    ELSE With([s EXCEPT !.cache = Append(@, [key |-> key, template |-> template,
                                             delimiters |-> delims])],
              LAMBDA s1 :
           Log(Log(s1, Ev("compile", 0, NoDep, "", template, delims, "")),
               Ev("return", 0, Len(s1.cache), "", template, delims, ""))))

\* compileToFunctions(template, {delimiters}) for a template and delimiters; no more than
\* MaxCached templates are compiled
CompileOp ==
  \E template \in Templates, delims \in Delimiters :
    /\ Len(cache) < MaxCached \/ Cached(Cur, CacheKey(template, delims)) # {}
    /\ Commit(CompileToFunctions(Start("compileToFunctions", 0, NoDep, "", template, delims, ""),
                                 template, delims))

NextCompile == CompileOp

SpecCompile == Init /\ [][NextCompile]_vars

\* the call that made the log called compile
Compiled(log) == \E i \in 1..Len(log) : log[i].t = "compile"

\* C39: compileToFunctions returns a result of the cache, and does not call compile, exactly
\* when the functions of an earlier call were compiled from the same template with the same
\* delimiters; what a call returns was compiled from its own template and delimiters, so
\* that calls that differ in either never get the same result.
C39_CacheByTemplateAndDelimiters ==
  /\ [][ev'[1].t = "compileToFunctions" =>
          (~Compiled(ev') <=>
             \E i \in 1..Len(cache) :
               cache[i].template = ev'[1].x /\ cache[i].delimiters = ev'[1].y)]_vars
  /\ [](Call("compileToFunctions") =>
          ev[Len(ev)].x = ev[1].x /\ ev[Len(ev)].y = ev[1].y)


----------------------------------------------------------------------------
(* compiler/parser/html-parser.js: parseHTML.  The input is the sequence of *)
(* the pieces the regular expressions of the parser match: start tags       *)
(* <p>, <P>, <style> and <p/>, end tags </p>, </P>, </style> and </br>, and *)
(* a "<" that opens no tag.  One step is one round of the while loop; the   *)
(* log holds the calls of options.start, options.end and options.warn.      *)

MaxHtml == 3

TagNames == {"p", "P", "style"}

Tokens ==
  {[k |-> "open", tag |-> t, slash |-> FALSE] : t \in TagNames}
    \cup {[k |-> "open", tag |-> "p", slash |-> TRUE]}
    \cup {[k |-> "close", tag |-> t, slash |-> FALSE] : t \in TagNames \cup {"br"}}
    \cup {[k |-> "lt", tag |-> "", slash |-> FALSE]}

RECURSIVE Inputs(_)
\* the inputs of at most n pieces
Inputs(n) ==
  IF n = 0 THEN {<<>>}
  ELSE With(Inputs(n - 1), LAMBDA S : S \cup {Append(h, t) : h \in S, t \in Tokens})

\* isNonPhrasingTag is imported from web/compiler/util: the tags it may hold of
IsNonPhrasingTag == {{}, {"style"}}

\* options.expectHTML, options.isUnaryTag and options.canBeLeftOpenTag, with the tags
\* isNonPhrasingTag holds of
ParserOptions ==
  [expectHTML : BOOLEAN, isUnaryTag : {{}, {"p"}}, canBeLeftOpenTag : {{}, {"p"}},
   isNonPhrasingTag : IsNonPhrasingTag]

\* tagName.toLowerCase()
ToLowerCase(tag) == IF tag = "P" THEN "p" ELSE tag

\* isPlainTextElement = makeMap('script,style,textarea', true)
IsPlainTextElement(tag) == ToLowerCase(tag) \in {"script", "style", "textarea"}

\* the calls of the callbacks, as the log records them
StartEv(tag, unary) == Ev("start", 0, NoDep, "", tag, IF unary THEN "unary" ELSE "", "")
EndEv(tag) == Ev("end", 0, NoDep, "", tag, "", "")
NoEndTagWarning(tag) == Ev("warn", 0, NoDep, "", "has no matching end tag", tag, "")

RECURSIVE FindPos(_, _, _), EndLoop(_, _, _, _)

\* for (pos = stack.length - 1; pos >= 0; pos--) if (stack[pos].lowerCasedTag ===
\* lowerCasedTagName) break      (pos and the result are 0-based, as in the code)
FindPos(s, lower, pos) ==
  IF pos < 0 \/ ToLowerCase(s.stack[pos + 1]) = lower THEN pos ELSE FindPos(s, lower, pos - 1)

\* for (let i = stack.length - 1; i >= pos; i--) { warn; options.end(stack[i].tag) }
EndLoop(s, tagName, pos, i) ==
  IF i < pos THEN s
  ELSE EndLoop(Log(IF ~s.production /\ (i > pos \/ tagName = "")
                   THEN Log(s, NoEndTagWarning(s.stack[i + 1])) ELSE s,
                   EndEv(s.stack[i + 1])),
               tagName, pos, i - 1)

\* parseEndTag reporting the end of the element it was called for alone
ParseEndTagOne(s, tagName) ==
  With(IF tagName # "" THEN FindPos(s, ToLowerCase(tagName), Len(s.stack) - 1) ELSE 0,
       LAMBDA pos :
    IF pos >= 0
    THEN [EndLoop(s, tagName, pos, IF pos < Len(s.stack) THEN pos ELSE pos - 1)
            EXCEPT !.stack = SubSeq(s.stack, 1, pos),
                   !.lastTag = IF pos = 0 THEN "" ELSE s.stack[pos]]
    ELSE IF ToLowerCase(tagName) = "br" THEN Log(s, StartEv(tagName, TRUE))
    ELSE IF ToLowerCase(tagName) = "p"
         THEN Log(Log(s, StartEv(tagName, FALSE)), EndEv(tagName))
         ELSE s)

\* parseEndTag(tagName); tagName is "" in the call parseEndTag()
ParseEndTag(s, tagName) ==
  With(IF tagName # "" THEN FindPos(s, ToLowerCase(tagName), Len(s.stack) - 1) ELSE 0,
       LAMBDA pos :
    IF pos >= 0
    THEN [EndLoop(s, tagName, pos, Len(s.stack) - 1)
            EXCEPT !.stack = SubSeq(s.stack, 1, pos),
                   !.lastTag = IF pos = 0 THEN "" ELSE s.stack[pos]]
    ELSE IF ToLowerCase(tagName) = "br" THEN Log(s, StartEv(tagName, TRUE))
    ELSE IF ToLowerCase(tagName) = "p"
         THEN Log(Log(s, StartEv(tagName, FALSE)), EndEv(tagName))
         ELSE s)

\* handleStartTag(match) of the start tag <tag> or <tag/>, with the options o
HandleStartTag(s, tag, slash, o) ==
  With(IF o.expectHTML /\ s.lastTag = "p" /\ tag \in o.isNonPhrasingTag
       THEN ParseEndTag(s, s.lastTag) ELSE s, LAMBDA s1 :
  With(IF o.expectHTML /\ tag \in o.canBeLeftOpenTag /\ s1.lastTag = tag
       THEN ParseEndTag(s1, tag) ELSE s1, LAMBDA s2 :
  With(tag \in o.isUnaryTag \/ slash, LAMBDA unary :
    Log(IF ~unary THEN [s2 EXCEPT !.stack = Append(@, tag), !.lastTag = tag] ELSE s2,
        StartEv(tag, unary)))))

RECURSIVE TextEnd(_, _)
\* the pieces before the first tag after piece i, or before the last "<": what the text
\* branch takes as text (textEnd)
TextEnd(h, i) ==
  IF h[i + 1].k # "lt" \/ i + 1 = Len(h) THEN i ELSE TextEnd(h, i + 1)

\* the first piece of h that is the end tag of the element stackedTag (0: none)
FirstEndTag(h, stackedTag) ==
  IF \E i \in 1..Len(h) : h[i].k = "close" /\ ToLowerCase(h[i].tag) = stackedTag
  THEN CHOOSE i \in 1..Len(h) :
         /\ h[i].k = "close" /\ ToLowerCase(h[i].tag) = stackedTag
         /\ \A j \in 1..(i - 1) : ~(h[j].k = "close" /\ ToLowerCase(h[j].tag) = stackedTag)
  ELSE 0

\* if (html === last) { options.chars(html); warn; break }: the log records the break
BreakIfLast(s, last) ==
  IF s.html = last
  THEN Log(IF ~s.production /\ s.stack = <<>>
           THEN Log(s, Ev("warn", 0, NoDep, "", "Mal-formatted tag at end of template", "", ""))
           ELSE s,
           Ev("break", 0, NoDep, "", "", "", ""))
  ELSE s

\* one round of while (html), with the options o
ParseRound(s, o) ==
  IF s.lastTag = "" \/ ~IsPlainTextElement(s.lastTag)
  THEN With(Head(s.html), LAMBDA t :
         IF t.k = "close"
         THEN ParseEndTag([s EXCEPT !.html = Tail(@)], t.tag)
         ELSE IF t.k = "open"
         THEN HandleStartTag([s EXCEPT !.html = Tail(@)], t.tag, t.slash, o)
         ELSE With(TextEnd(s.html, 0), LAMBDA n :
                BreakIfLast([s EXCEPT !.html = SubSeq(@, n + 1, Len(@))], s.html)))
  ELSE With(ToLowerCase(s.lastTag), LAMBDA stackedTag :
       With(FirstEndTag(s.html, stackedTag), LAMBDA n :
         BreakIfLast(ParseEndTag([s EXCEPT !.html = SubSeq(@, n + 1, Len(@))], stackedTag),
                     s.html)))

\* parseHTML is running: it was called and has not returned
Parsing == Call("parseHTML") /\ ev[Len(ev)].t # "return"

\* the while loop of parseHTML has ended
LoopEnded == html = <<>> \/ ev[Len(ev)].t = "break"

\* parseHTML(html, options) is called.  stack, lastTag and the rest of the input are locals
\* of the call, so that no call sees what another left: a behaviour holds one call.
ParseHTML ==
  /\ ~Call("parseHTML")
  /\ \E input \in Inputs(MaxHtml), o \in ParserOptions :
       Commit([Start("parseHTML", 0, NoDep, "", input, o, "")
                 EXCEPT !.html = input, !.stack = <<>>, !.lastTag = ""])

\* parseHTML goes once round its loop
ParseStep ==
  /\ Parsing /\ ~LoopEnded
  /\ Commit(ParseRound(Cur, ev[1].y))

\* parseHTML leaves the loop: parseEndTag(), and it returns
ParseReturn ==
  /\ Parsing /\ LoopEnded
  /\ Commit(Log(ParseEndTag(Cur, ""), Ev("return", 0, NoDep, "", "", "", "")))

NextParse == ParseHTML \/ ParseStep \/ ParseReturn

SpecParse == Init /\ [][NextParse]_vars

RECURSIVE OpenAfter(_, _, _)
\* the elements started and not ended by the first i entries of the log, the last started
\* last, when open were so before; <<"?">> when an end was reported that is not the end of
\* the element started last of those
OpenAfter(log, i, open) ==
  IF i > Len(log) \/ open = <<"?">> THEN open
  ELSE OpenAfter(log, i + 1,
         IF log[i].t = "start" /\ log[i].y # "unary" THEN Append(open, log[i].x)
         ELSE IF log[i].t = "end"
              THEN IF open # <<>> /\ open[Len(open)] = log[i].x
                   THEN SubSeq(open, 1, Len(open) - 1) ELSE <<"?">>
              ELSE open)

\* C40: while parseHTML runs and when it has returned, every end reported is the end of
\* the element that was started last among those not ended (so no element is ended twice
\* or out of order), the stack holds exactly the elements started and not ended, and when
\* parseHTML has returned the stack is empty: every element started has been ended.
C40_TagStackDiscipline ==
  Call("parseHTML") =>
    /\ OpenAfter(ev, 1, <<>>) = stack
    /\ ~Parsing => stack = <<>>

\* parseHTML has returned from an input in which two elements were left open: their ends
\* were reported by the parser, with warnings
C40_Witness ==
  /\ Call("parseHTML") /\ ~Parsing
  /\ Cardinality({i \in 1..Len(ev) : ev[i] = NoEndTagWarning("p")}) >= 2
  /\ Cardinality({i \in 1..Len(ev) : ev[i].t = "end"}) >= 2

====
